---- MODULE Spec2Model ----
(***************************************************************************)
(* A model of git-mmrepo (python/mmrepo): origin normalisation and tree    *)
(* identity (git.py, repo.py), the alias table (config.py), link creation  *)
(* (repo.py, fileutils.py), the manifest dependency provider (repo.py),    *)
(* the checkout walk (commands/checkout.py) and the version-set walk       *)
(* (commands/version_map.py).                                              *)
(*                                                                         *)
(* Python strings are sequences of one-character strings, so that prefix   *)
(* tests, index(), slicing and concatenation are computed as the code      *)
(* computes them.  File-system paths are sequences of path segments; an    *)
(* absolute path starts with the segment "/".                              *)
(*                                                                         *)
(* Exceptions are outcomes: "ok", "UserError" (common.py UserError, the    *)
(* only class the commands catch) and the uncaught kinds "AssertionError", *)
(* "AttributeError", "TypeError", "ValueError", "OSError", "NameError".    *)
(***************************************************************************)
EXTENDS Integers, Sequences, FiniteSets, TLC

VARIABLES
  \* --- origin / tree identity (git.py GitOrigin, repo.py GitTreeRef)
  o_pc,        \* "new" | "normalized" | "done"
  o_a,         \* the tree object under test
  o_b,         \* the object it is compared with
  o_up,        \* result of o_a's origin.universe_path
  o_alias,     \* result of o_a's origin.default_alias
  o_cmp,       \* result of the comparison of o_a with o_b
  \* --- alias table (config.py RepoTreesConfig)
  al_aliases,  \* the "aliases" dict: alias -> tree_id
  al_calls,    \* number of add_alias calls made
  al_last,     \* the last add_alias call: arguments, returned alias, table before
  al_returned, \* history: <<alias, tree_id>> -> alias returned by the first such call
  \* --- the workspace on disk (repo.py Repo, config.py, the file system)
  ws,          \* [fs, trees, aliases]: file system, tree registry, alias table
  ws_calls,    \* number of operations applied to the workspace
  ws_last,     \* the last operation: what was called, its outcome, ws before it
  ws_made,     \* history: <<url, target>> of the links make_link has created
  \* --- a manifest provider (repo.py JsonDepProvider) and its workspace
  mf_deps,     \* the dep records read from module_deps.json, in file order
  mf_parent,   \* the URL of the tree whose directory holds the manifest
  mf_ws,       \* the workspace the provider works on
  mf_calls,    \* number of provider calls made
  mf_last,     \* the last provider call: which, its outcome, the trees it gave
  \* --- one run of the checkout command (commands/checkout.py exec)
  wk_env,      \* what the run is given: args, the manifests on disk, git's failures
  wk_pc,       \* where exec stands
  wk_ws,       \* the workspace the command works on
  wk,          \* exec's local variables
  wk_hist,     \* history: checkout() calls per tree, the last visit, how exec ended
  \* --- one run of the version_map command (commands/version_map.py exec)
  sv_env,      \* what the run is given: args, the trees' pins and manifests
  sv_pc,       \* where exec stands
  sv_ws,       \* the workspace the command works on
  sv,          \* exec's local variables, git's state, how exec ended
  \* --- one GitTreeRef object (repo.py) and the providers it holds
  ti_ws,       \* the workspace the tree lives in
  ti,          \* the object: its URL, its _deps, and the log of what its providers did
  ti_calls,    \* number of operations applied to the object
  ti_last,     \* the last operation: what was called, its outcome, the state before it
  \* --- the parsers of version_map.py on given texts
  pv_specs,    \* the arguments: one token for VersionComponent.parse, the specs of VersionMap.parse
  pv_last      \* the last call: which parser, what it returned

originVars == <<o_pc, o_a, o_b, o_up, o_alias, o_cmp>>

aliasVars == <<al_aliases, al_calls, al_last, al_returned>>

wsVars == <<ws, ws_calls, ws_last, ws_made>>

mfVars == <<mf_deps, mf_parent, mf_ws, mf_calls, mf_last>>

walkVars == <<wk_env, wk_pc, wk_ws, wk, wk_hist>>

setVars == <<sv_env, sv_pc, sv_ws, sv>>

instVars == <<ti_ws, ti, ti_calls, ti_last>>

parseVars == <<pv_specs, pv_last>>

vars == <<originVars, aliasVars, wsVars, mfVars, walkVars, setVars, instVars, parseVars>>

\* What each part's actions leave alone.
notOrigin == <<aliasVars, wsVars, mfVars, walkVars, setVars, instVars, parseVars>>

notAlias == <<originVars, wsVars, mfVars, walkVars, setVars, instVars, parseVars>>

notWs == <<originVars, aliasVars, mfVars, walkVars, setVars, instVars, parseVars>>

notMf == <<originVars, aliasVars, wsVars, walkVars, setVars, instVars, parseVars>>

notWalk == <<originVars, aliasVars, wsVars, mfVars, setVars, instVars, parseVars>>

notSet == <<originVars, aliasVars, wsVars, mfVars, walkVars, instVars, parseVars>>

notInst == <<originVars, aliasVars, wsVars, mfVars, walkVars, setVars, parseVars>>

notParse == <<originVars, aliasVars, wsVars, mfVars, walkVars, setVars, instVars>>

-----------------------------------------------------------------------------
(* Evaluation order: Python evaluates the arguments of a call once, before *)
(* the call.  BindN(v.., F) is F(v..) with each v evaluated once, however   *)
(* often F uses it.                                                        *)

\* F(v), with v evaluated once however often F uses it.
Bind1(v1, F(_)) == CHOOSE r \in { F(x1) : x1 \in {v1} } : TRUE

Bind2(v1, v2, F(_, _)) == CHOOSE r \in { F(x1, x2) : x1 \in {v1}, x2 \in {v2} } : TRUE

Bind3(v1, v2, v3, F(_, _, _)) ==
  CHOOSE r \in { F(x1, x2, x3) : x1 \in {v1}, x2 \in {v2}, x3 \in {v3} } : TRUE

Bind4(v1, v2, v3, v4, F(_, _, _, _)) ==
  CHOOSE r \in { F(x1, x2, x3, x4) : x1 \in {v1}, x2 \in {v2}, x3 \in {v3}, x4 \in {v4} } : TRUE

Bind5(v1, v2, v3, v4, v5, F(_, _, _, _, _)) ==
  CHOOSE r \in { F(x1, x2, x3, x4, x5) :
                   x1 \in {v1}, x2 \in {v2}, x3 \in {v3}, x4 \in {v4}, x5 \in {v5} } : TRUE

Bind6(v1, v2, v3, v4, v5, v6, F(_, _, _, _, _, _)) ==
  CHOOSE r \in { F(x1, x2, x3, x4, x5, x6) :
                   x1 \in {v1}, x2 \in {v2}, x3 \in {v3}, x4 \in {v4}, x5 \in {v5},
                   x6 \in {v6} } : TRUE

-----------------------------------------------------------------------------
(* Python str helpers                                                      *)

StartsWith(s_, p_) ==
  Bind2(s_, p_, LAMBDA s, p :
    Len(s) >= Len(p) /\ SubSeq(s, 1, Len(p)) = p)

EndsWith(s_, p_) ==
  Bind2(s_, p_, LAMBDA s, p :
    Len(s) >= Len(p) /\ SubSeq(s, Len(s) - Len(p) + 1, Len(s)) = p)

\* str.index(c) for a one-character c: the least index, 0 for ValueError.
IndexOf(s_, c_) ==
  Bind2(s_, c_, LAMBDA s, c :
    IF \E i \in 1..Len(s) : s[i] = c
    THEN CHOOSE i \in 1..Len(s) : s[i] = c /\ \A j \in 1..(i - 1) : s[j] # c
    ELSE 0)

\* The greatest index of c in s, 0 when absent (str.rfind + 1).
LastIndexOf(s_, c_) ==
  Bind2(s_, c_, LAMBDA s, c :
    IF \E i \in 1..Len(s) : s[i] = c
    THEN CHOOSE i \in 1..Len(s) : s[i] = c /\ \A j \in (i + 1)..Len(s) : s[j] # c
    ELSE 0)

\* The least index of a character of cs in s, Len(s)+1 when there is none.
FirstOf(s_, cs_) ==
  Bind2(s_, cs_, LAMBDA s, cs :
    IF \E i \in 1..Len(s) : s[i] \in cs
    THEN CHOOSE i \in 1..Len(s) : s[i] \in cs /\ \A j \in 1..(i - 1) : s[j] \notin cs
    ELSE Len(s) + 1)

\* str.replace(a, b) for one-character a and b.
StrReplace(s_, a_, b_) ==
  Bind3(s_, a_, b_, LAMBDA s, a, b :
    [i \in 1..Len(s) |-> IF s[i] = a THEN b ELSE s[i]])

\* os.path.sep on the POSIX systems the tool supports (it relies on symlinks).
OsSep == "/"

\* os.path.isabs
IsAbs(p_) ==
  Bind1(p_, LAMBDA p :
    p # <<>> /\ p[1] = OsSep)

\* os.path.join(a, b) on strings
StrPathJoin(a_, b_) ==
  Bind2(a_, b_, LAMBDA a, b :
    IF IsAbs(b) THEN b
    ELSE IF a = <<>> \/ a[Len(a)] = OsSep THEN a \o b
    ELSE a \o <<OsSep>> \o b)

\* os.path.basename
StrBasename(p_) ==
  Bind1(p_, LAMBDA p :
    SubSeq(p, LastIndexOf(p, OsSep) + 1, Len(p)))

\* Results of calls that may raise.
Ok(v) == [kind |-> "ok", val |-> v]

Raise(k) == [kind |-> k, val |-> <<>>]

-----------------------------------------------------------------------------
(* git.py: GitOrigin                                                       *)

HTTPS == <<"h","t","t","p","s",":","/","/">>

HTTP == <<"h","t","t","p",":","/","/">>

DOT_GIT == <<".","g","i","t">>

\* s up to, not including, the first occurrence of the character c.
Before(s_, c_) ==
  Bind2(s_, c_, LAMBDA s, c :
    SubSeq(s, 1, FirstOf(s, {c}) - 1))

\* s from index k on.
From(s_, k_) ==
  Bind2(s_, k_, LAMBDA s, k :
    SubSeq(s, k, Len(s)))

\* urllib.parse.urlsplit, the netloc and path parts, for the specs that reach
\* it (they start with http:// or https://): the netloc runs from the "//" to
\* the first of "/", "?", "#"; the path from there to the first "?" or "#".
UrlSplitAt(afterSl_, cut_) ==
  Bind2(afterSl_, cut_, LAMBDA afterSl, cut :
    [netloc |-> SubSeq(afterSl, 1, cut - 1),
     path   |-> Before(Before(From(afterSl, cut), "#"), "?")])

UrlSplitRest(rest_) ==
  Bind1(rest_, LAMBDA rest :
    IF StartsWith(rest, <<"/","/">>)
    THEN UrlSplitAt(From(rest, 3), FirstOf(From(rest, 3), {"/","?","#"}))
    ELSE [netloc |-> <<>>, path |-> Before(Before(rest, "#"), "?")])

UrlSplit(spec_) ==
  Bind1(spec_, LAMBDA spec :
    UrlSplitRest(From(spec, IndexOf(spec, ":") + 1)))

\* if path and path[0] == "/": path = path[1:]
StripLeadingSlash(path_) ==
  Bind1(path_, LAMBDA path :
    IF path # <<>> /\ path[1] = "/" THEN Tail(path) ELSE path)

\* path.replace("/", os.path.sep); assert not os.path.isabs(path);
\* return os.path.join(netloc, path)
JoinNormalized(netloc_, path_) ==
  Bind2(netloc_, path_, LAMBDA netloc, path :
    IF IsAbs(StrReplace(path, "/", OsSep))
    THEN Raise("AssertionError")
    ELSE Ok(StrPathJoin(netloc, StrReplace(path, "/", OsSep))))

\* netloc = netloc[atpos + 1:] when netloc.index("@") finds one
StripUserAt(netloc_, atpos_) ==
  Bind2(netloc_, atpos_, LAMBDA netloc, atpos :
    IF atpos = 0 THEN netloc ELSE From(netloc, atpos + 1))

\* GitOrigin.universe_path, the http(s) branch on the split URL
universe_path_http(url_) ==
  Bind1(url_, LAMBDA url :
    JoinNormalized(url.netloc, StripLeadingSlash(url.path)))

\* The SSH branch with the "user@" part left in the host.
universe_path_ssh_keep_user(spec_, split_pos_) ==
  Bind2(spec_, split_pos_, LAMBDA spec, split_pos :
    IF split_pos = 0 THEN Raise("UserError")
    ELSE JoinNormalized(SubSeq(spec, 1, split_pos - 1),
                        StripLeadingSlash(From(spec, split_pos + 1))))

\* GitOrigin.universe_path, the SSH branch; split_pos is spec.index(":"),
\* 0 for its ValueError
universe_path_ssh(spec_, split_pos_) ==
  Bind2(spec_, split_pos_, LAMBDA spec, split_pos :
    IF split_pos = 0 THEN Raise("UserError")
    ELSE JoinNormalized(StripUserAt(SubSeq(spec, 1, split_pos - 1),
                                    IndexOf(SubSeq(spec, 1, split_pos - 1), "@")),
                        StripLeadingSlash(From(spec, split_pos + 1))))

\* GitOrigin.universe_path
universe_path(spec_) ==
  Bind1(spec_, LAMBDA spec :
    IF StartsWith(spec, HTTPS) \/ StartsWith(spec, HTTP)
    THEN universe_path_http(UrlSplit(spec))
    ELSE universe_path_ssh(spec, IndexOf(spec, ":")))

\* basename[0:-4] if basename.endswith(".git") else basename
StripDotGit(basename_) ==
  Bind1(basename_, LAMBDA basename :
    IF EndsWith(basename, DOT_GIT) THEN SubSeq(basename, 1, Len(basename) - 4) ELSE basename)

\* GitOrigin.default_alias on the result of universe_path
default_alias_of(up_) ==
  Bind1(up_, LAMBDA up :
    IF up.kind # "ok" THEN up ELSE Ok(StripDotGit(StrBasename(up.val))))

\* GitOrigin.default_alias
default_alias(spec) == default_alias_of(universe_path(spec))

\* An equality that canonicalises the spec before comparing.
OriginEqNormalized(spec1, spec2) == universe_path(spec1) = universe_path(spec2)

\* GitOrigin.__eq__ : self._spec == other._spec
OriginEq(spec1, spec2) == spec1 = spec2

\* Python's hash() of a str: some function of the characters, not injective.
\* A stand-in that depends on the characters only: length, first and last.
PyStrHash(s_) ==
  Bind1(s_, LAMBDA s :
    <<Len(s), IF s = <<>> THEN "" ELSE s[1], IF s = <<>> THEN "" ELSE s[Len(s)]>>)

\* GitOrigin.__hash__ : hash(self._spec)
OriginHash(spec) == PyStrHash(spec)

-----------------------------------------------------------------------------
(* config.py: RepoTreesConfig                                              *)

DIGITS == <<"0","1","2","3","4","5","6","7","8","9">>

\* str(i) for i >= 0
RECURSIVE DecStr(_)
DecStr(i_) ==
  Bind1(i_, LAMBDA i :
    IF i < 10 THEN <<DIGITS[i + 1]>> ELSE DecStr(i \div 10) \o <<DIGITS[(i % 10) + 1]>>)

\* dict.get(key): the value, or None
None == [kind |-> "None"]

DictGet(d_, k_) ==
  Bind2(d_, k_, LAMBDA d, k :
    IF k \in DOMAIN d THEN d[k] ELSE None)

\* d[k] = v
DictSet(d, k, v) == (k :> v) @@ d

\* add_alias that binds the requested alias whatever it was bound to.
add_alias_clobber(aliases_, alias_, tid_) ==
  Bind3(aliases_, alias_, tid_, LAMBDA aliases, alias, tid :
    [alias |-> alias, aliases |-> DictSet(aliases, alias, tid)])

\* RepoTreesConfig.add_alias, the loop from iteration i on with the candidate
\* alias of that iteration.
RECURSIVE add_alias_from(_, _, _, _, _)
add_alias_from(aliases_, requested_alias_, alias_, i_, tid_) ==
  Bind5(aliases_, requested_alias_, alias_, i_, tid_, LAMBDA aliases, requested_alias, alias, i, tid :
    LET existing_tree_id == DictGet(aliases, alias) IN
    IF existing_tree_id = None \/ existing_tree_id = tid
    THEN [alias |-> alias, aliases |-> DictSet(aliases, alias, tid)]
    ELSE add_alias_from(aliases, requested_alias,
                        requested_alias \o <<"-">> \o DecStr(i), i + 1, tid))

\* RepoTreesConfig.add_alias: the alias returned and the table afterwards.
add_alias(aliases_, alias_, tid_) ==
  Bind3(aliases_, alias_, tid_, LAMBDA aliases, alias, tid :
    add_alias_from(aliases, alias, alias, 0, tid))

-----------------------------------------------------------------------------
(* repo.py: GitTreeRef identity                                            *)

GIT_SLASH == <<"g","i","t","/">>

ROOT_URL == <<"_","_","r","o","o","t","_","_">>

\* GitTreeRef.__init__ ; oid stands for the Python object's identity.
GitTreeRef(url_spec_, oid_) ==
  Bind2(url_spec_, oid_, LAMBDA url_spec, oid :
    [type |-> "GitTreeRef", url |-> url_spec, working_tree |-> "defaultwt", oid |-> oid])

\* GitTreeRef.tree_id : "git/{}".format(self._origin.git_origin)
tree_id(url) == GIT_SLASH \o url

\* No tree is taken for the root tree.
is_root_tree_never(url) == FALSE

\* GitTreeRef.is_root_tree
is_root_tree(url) == url = ROOT_URL

\* GitTreeRef.__eq__
TreeEq(a_, b_) ==
  Bind2(a_, b_, LAMBDA a, b :
    IF a.oid = b.oid THEN TRUE
    ELSE IF b.type # "GitTreeRef" THEN FALSE
    ELSE OriginEq(a.url, b.url))

\* GitTreeRef.__hash__ : hash(self._origin)
TreeHash(a) == OriginHash(a.url)

\* GitTreeRef.validate : evaluates origin.universe_path for its exception.
validate(url) == universe_path(url).kind

\* GitTreeRef.default_local_path
default_local_path(url_) ==
  Bind1(url_, LAMBDA url :
    IF is_root_tree(url) THEN Ok(ROOT_URL) ELSE default_alias(url))

-----------------------------------------------------------------------------
(* Paths and the file system                                               *)
(*                                                                         *)
(* A path as pathlib.Path holds it: a sequence of segments, each a string; *)
(* an absolute path starts with the segment "/".  The file system maps the *)
(* paths that exist to an entry: a directory, a file with its content, or  *)
(* a symlink with its text.  Directories on the way to a path are real     *)
(* directories (no symlinked parents, no ".." segments), so that           *)
(* Path.resolve() of an absolute path is the path itself.                  *)

SLASH == <<"/">>

\* The segments of a string between separators, empty ones dropped.
RECURSIVE SplitSegs(_)
SplitSegs(s_) ==
  Bind1(s_, LAMBDA s :
    IF s = <<>> THEN <<>>
    ELSE LET k == IndexOf(s, "/") IN
         IF k = 0 THEN <<s>>
         ELSE (IF k = 1 THEN <<>> ELSE <<SubSeq(s, 1, k - 1)>>)
              \o SplitSegs(SubSeq(s, k + 1, Len(s))))

\* pathlib.Path(s)
PathParts(s_) ==
  Bind1(s_, LAMBDA s :
    (IF IsAbs(s) THEN <<SLASH>> ELSE <<>>) \o SplitSegs(s))

\* "/".join(segs)
RECURSIVE JoinSegs(_)
JoinSegs(segs_) ==
  Bind1(segs_, LAMBDA segs :
    IF segs = <<>> THEN <<>>
    ELSE IF Len(segs) = 1 THEN segs[1]
    ELSE segs[1] \o <<"/">> \o JoinSegs(Tail(segs)))

\* str(path)
PathStr(parts_) ==
  Bind1(parts_, LAMBDA parts :
    IF parts # <<>> /\ parts[1] = SLASH
    THEN <<"/">> \o JoinSegs(Tail(parts))
    ELSE JoinSegs(parts))

\* Path.parent
Parent(parts_) ==
  Bind1(parts_, LAMBDA parts :
    SubSeq(parts, 1, Len(parts) - 1))

DirEntry == [kind |-> "dir", text |-> <<>>]

FileEntry(content) == [kind |-> "file", text |-> content]

LinkEntry(text_) ==
  Bind1(text_, LAMBDA text :
    [kind |-> "link", text |-> text])

\* os.path.islink
IsLink(fs_, parts_) ==
  Bind2(fs_, parts_, LAMBDA fs, parts :
    parts \in DOMAIN fs /\ fs[parts].kind = "link")

\* os.path.exists(p) or os.path.islink(p): there is an entry at p.
\* (exists() alone follows a symlink; it is only ever used beside islink().)
EntryAt(fs, parts) == parts \in DOMAIN fs

\* os.path.isfile, for a path that is no symlink
IsFile(fs_, parts_) ==
  Bind2(fs_, parts_, LAMBDA fs, parts :
    parts \in DOMAIN fs /\ fs[parts].kind = "file")

\* os.path.isdir, for a path that is no symlink
IsDir(fs_, parts_) ==
  Bind2(fs_, parts_, LAMBDA fs, parts :
    parts \in DOMAIN fs /\ fs[parts].kind = "dir")

\* os.unlink / os.rmdir of an entry
RemoveEntry(fs_, parts_) ==
  Bind2(fs_, parts_, LAMBDA fs, parts :
    [q \in DOMAIN fs \ {parts} |-> fs[q]])

\* os.rmdir fails on a directory that has entries below it.
DirIsEmpty(fs_, parts_) ==
  Bind2(fs_, parts_, LAMBDA fs, parts :
    \A q \in DOMAIN fs : ~(Len(q) > Len(parts) /\ SubSeq(q, 1, Len(parts)) = parts))

\* os.makedirs(dir, exist_ok=True): the missing directories down to dir are
\* created; a file on the way is an OSError.
MakeDirs(fs_, dir_) ==
  Bind2(fs_, dir_, LAMBDA fs, dir :
    LET prefixes == { SubSeq(dir, 1, k) : k \in 2..Len(dir) } IN
    IF \E q \in prefixes : IsFile(fs, q)
    THEN [kind |-> "OSError", fs |-> fs]
    ELSE [kind |-> "ok",
          fs   |-> [q \in DOMAIN fs \cup prefixes |->
                      IF q \in DOMAIN fs THEN fs[q] ELSE DirEntry]])

\* write_json_file once the directory has been made (md): open(path, "wt")
write_json_file_in(fs_, parts_, content_, md_) ==
  Bind4(fs_, parts_, content_, md_, LAMBDA fs, parts, content, md :
    IF md.kind # "ok" THEN md
    ELSE IF IsDir(md.fs, parts) THEN [kind |-> "OSError", fs |-> fs]
    ELSE [kind |-> "ok", fs |-> DictSet(md.fs, parts, FileEntry(content))])

\* config.py write_json_file(path, contents)
write_json_file(fs_, parts_, content_) ==
  Bind3(fs_, parts_, content_, LAMBDA fs, parts, content :
    write_json_file_in(fs, parts, content, MakeDirs(fs, Parent(parts))))

-----------------------------------------------------------------------------
(* fileutils.py                                                            *)

\* The number of parents of dst visited before relative_to is met
\* (dst.parents is the parent first, the root last); 0 when it is not met.
ParentsBefore(dst_, relative_to_) ==
  Bind2(dst_, relative_to_, LAMBDA dst, relative_to :
    IF \E j \in 1..(Len(dst) - 1) : SubSeq(dst, 1, Len(dst) - j) = relative_to
    THEN CHOOSE j \in 1..(Len(dst) - 1) : SubSeq(dst, 1, Len(dst) - j) = relative_to
    ELSE 0)

\* j times the segment ".."
DotDots(j) == [i \in 1..j |-> <<".",".">>]

\* pathlib: whether src is relative_to or below it
IsBelow(src_, relative_to_) ==
  Bind2(src_, relative_to_, LAMBDA src, relative_to :
    Len(src) >= Len(relative_to) /\ SubSeq(src, 1, Len(relative_to)) = relative_to)

\* fileutils.make_relative_link(src, dst, relative_to): link_accum gets one
\* ".." for each parent of dst visited before relative_to; with none visited
\* it is still None and None.joinpath raises AttributeError.
make_relative_link(fs_, src_, dst_, relative_to_) ==
  Bind4(fs_, src_, dst_, relative_to_, LAMBDA fs, src, dst, relative_to :
    LET j == ParentsBefore(dst, relative_to) IN
    IF j = 0 THEN [kind |-> "ValueError", fs |-> fs]
    ELSE IF j = 1 THEN [kind |-> "AttributeError", fs |-> fs]
    ELSE IF ~IsBelow(src, relative_to) THEN [kind |-> "ValueError", fs |-> fs]
    ELSE IF EntryAt(fs, dst) \/ ~IsDir(fs, Parent(dst)) THEN [kind |-> "OSError", fs |-> fs]
    ELSE LET link_accum ==
               DotDots(j - 1) \o SubSeq(src, Len(relative_to) + 1, Len(src))
         IN  [kind |-> "ok", fs |-> DictSet(fs, dst, LinkEntry(PathStr(link_accum)))])

-----------------------------------------------------------------------------
(* repo.py: Repo layout, GitTreeRef paths and links                        *)

\* Repo.path: the workspace directory, "/ws"
REPO_PATH == <<"/","w","s">>

MMREPO_DIR == <<".","m","m","r","e","p","o">>

UNIVERSE_DIR == <<"u","n","i","v","e","r","s","e">>

\* Repo.universe_dir
universe_dir == StrPathJoin(StrPathJoin(REPO_PATH, MMREPO_DIR), UNIVERSE_DIR)

\* GitTreeRef.path_in_repo on the result of universe_path
path_in_universe(up_) ==
  Bind1(up_, LAMBDA up :
    IF up.kind # "ok" THEN up ELSE Ok(StrPathJoin(universe_dir, up.val)))

\* GitTreeRef.path_in_repo
path_in_repo(url_) ==
  Bind1(url_, LAMBDA url :
    IF is_root_tree(url) THEN Ok(REPO_PATH) ELSE path_in_universe(universe_path(url)))

\* os.path.join(parent, ".{}.mmr-config".format(base)) for the path parts
annotation_file_of(parts_) ==
  Bind1(parts_, LAMBDA parts :
    Parent(parts) \o << <<".">> \o parts[Len(parts)]
                        \o <<".","m","m","r","-","c","o","n","f","i","g">> >>)

\* GitConfigAnnotation._get_config_file(git_root_path)
annotation_file(git_root) == annotation_file_of(PathParts(git_root))

\* GitConfigAnnotation.save_to_git_root
save_to_git_root(fs, tid, git_root) == write_json_file(fs, annotation_file(git_root), tid)

\* The workspace state with another file system.
WithFs(w_, fs_) ==
  Bind2(w_, fs_, LAMBDA w, fs :
    [w EXCEPT !.fs = fs])

\* An outcome with the workspace it leaves.
Outcome(kind_, w_) ==
  Bind2(kind_, w_, LAMBDA kind, w :
    [kind |-> kind, ws |-> w])

\* make_link, the call of fileutils.make_relative_link (ln is its result)
make_link_linked(w_, ln_) ==
  Bind2(w_, ln_, LAMBDA w, ln :
    Outcome(ln.kind, WithFs(w, ln.fs)))

\* make_link from os.makedirs(os.path.dirname(target_path)) on (md is its result)
make_link_create(w_, tgt_, source_path_, md_) ==
  Bind4(w_, tgt_, source_path_, md_, LAMBDA w, tgt, source_path, md :
    IF md.kind # "ok" THEN Outcome(md.kind, w)
    ELSE make_link_linked(w, make_relative_link(md.fs, PathParts(source_path), tgt,
                                                PathParts(REPO_PATH))))

\* The check of an existing target, replacing whatever symlink is there.
make_link_checked_replace(w_, tgt_, source_path_) ==
  Bind3(w_, tgt_, source_path_, LAMBDA w, tgt, source_path :
    IF EntryAt(w.fs, tgt) /\ ~IsLink(w.fs, tgt)
    THEN Outcome("UserError", w)
    ELSE make_link_create(WithFs(w, RemoveEntry(w.fs, tgt)), tgt, source_path,
                          MakeDirs(RemoveEntry(w.fs, tgt), Parent(tgt))))

\* make_link from the check of an existing target on: existing_target is
\* os.readlink(target_path), the text of the link
make_link_checked(w_, tgt_, source_path_) ==
  Bind3(w_, tgt_, source_path_, LAMBDA w, tgt, source_path :
    IF EntryAt(w.fs, tgt)
    THEN IF ~IsLink(w.fs, tgt) THEN Outcome("UserError", w)
         ELSE IF w.fs[tgt].text = source_path THEN Outcome("ok", w)
         ELSE Outcome("UserError", w)
    ELSE make_link_create(w, tgt, source_path, MakeDirs(w.fs, Parent(tgt))))

\* make_link once the annotation has been written (ann is the result)
make_link_annotated(w_, tgt_, source_path_, ann_) ==
  Bind4(w_, tgt_, source_path_, ann_, LAMBDA w, tgt, source_path, ann :
    IF ann.kind # "ok" THEN Outcome(ann.kind, w)
    ELSE make_link_checked(WithFs(w, ann.fs), tgt, source_path))

\* make_link of a tree that is not the root tree; source is path_in_repo
make_link_from(w_, url_, tgt_, source_) ==
  Bind4(w_, url_, tgt_, source_, LAMBDA w, url, tgt, source :
    IF source.kind # "ok" THEN Outcome(source.kind, w)
    ELSE make_link_annotated(w, tgt, source.val,
                             save_to_git_root(w.fs, tree_id(url), source.val)))

\* GitTreeRef.make_link(target_path): the outcome and the workspace after.
make_link(w_, url_, target_path_) ==
  Bind3(w_, url_, target_path_, LAMBDA w, url, target_path :
    IF is_root_tree(url) THEN Outcome("ok", w)
    ELSE make_link_from(w, url, PathParts(target_path), path_in_repo(url)))

\* The registry record of a tree: BaseTreeRef.save with GitTreeRef.as_dict
tree_dict(url_) ==
  Bind1(url_, LAMBDA url :
    [url |-> url, working_tree |-> "defaultwt", t |-> "git"])

\* The result of a call that returns a tree (its URL; None for no tree).
TreeResult(kind_, tree_, w_) ==
  Bind3(kind_, tree_, w_, LAMBDA kind, tree, w :
    [kind |-> kind, tree |-> tree, ws |-> w])

CONFIG_DIR == <<"c","o","n","f","i","g">>

TREES_JSON == <<"t","r","e","e","s",".","j","s","o","n">>

\* RepoConfig: the file of the trees configuration,
\* <repo>/.mmrepo/config/trees.json
trees_config_file ==
  PathParts(StrPathJoin(StrPathJoin(StrPathJoin(REPO_PATH, MMREPO_DIR), CONFIG_DIR), TREES_JSON))

\* RepoTreesConfig.save: the contents, trees and aliases, written to the file
trees_config_save(w_) ==
  Bind1(w_, LAMBDA w :
    write_json_file(w.fs, trees_config_file, [trees |-> w.trees, aliases |-> w.aliases]))

\* A save that keeps the record of the saved tree only.
tree_save_alone(w_, url_) ==
  Bind2(w_, url_, LAMBDA w, url :
    [kind |-> "ok", tree |-> url,
     ws |-> [w EXCEPT !.trees = (tree_id(url) :> [url |-> url, working_tree |-> "defaultwt",
                                                  t |-> "git"])]])

\* BaseTreeRef.save once the record is in tree_dicts (w); saved is the
\* result of trees.save()
tree_saved(w_, url_, saved_) ==
  Bind3(w_, url_, saved_, LAMBDA w, url, saved :
    IF saved.kind # "ok" THEN TreeResult(saved.kind, None, w)
    ELSE TreeResult("ok", url, WithFs(w, saved.fs)))

\* BaseTreeRef.save: the record of the tree is put under its id, replacing
\* what is there, and the configuration is written
tree_save_put(w_, url_) ==
  Bind2(w_, url_, LAMBDA w, url : tree_saved(w, url, trees_config_save(w)))

tree_save(w_, url_) ==
  Bind2(w_, url_, LAMBDA w, url :
    tree_save_put([w EXCEPT !.trees = DictSet(w.trees, tree_id(url), tree_dict(url))], url))

\* get_tree for a tree the registry does not hold: add_alias, then save
get_tree_added(w_, remote_url_, tid_, al_) ==
  Bind4(w_, remote_url_, tid_, al_, LAMBDA w, remote_url, tid, al :
    tree_save([w EXCEPT !.aliases = al.aliases], remote_url))

\* BaseTreeRef.from_dict
from_dict(w_, d_) ==
  Bind2(w_, d_, LAMBDA w, d :
    IF d.t = "git" THEN TreeResult("ok", d.url, w) ELSE TreeResult("UserError", None, w))

\* get_tree after validate(); existing_dict is the registry's record or None
get_tree_valid(w_, remote_url_, create_, tid_, existing_dict_) ==
  Bind5(w_, remote_url_, create_, tid_, existing_dict_, LAMBDA w, remote_url, create, tid, existing_dict :
    IF existing_dict = None
    THEN IF ~create THEN TreeResult("ok", None, w)
         ELSE get_tree_added(w, remote_url, tid,
                             add_alias(w.aliases, default_local_path(remote_url).val, tid))
    ELSE from_dict(w, existing_dict))

\* Repo.get_tree(remote_url, create)
get_tree(w_, remote_url_, create_) ==
  Bind3(w_, remote_url_, create_, LAMBDA w, remote_url, create :
    IF validate(remote_url) # "ok" THEN TreeResult(validate(remote_url), None, w)
    ELSE get_tree_valid(w, remote_url, create, tree_id(remote_url),
                        DictGet(w.trees, tree_id(remote_url))))

-----------------------------------------------------------------------------
(* repo.py: JsonDepProvider                                                *)

\* A dep record as DepRecord.read_from_file builds it: paths holds one path.
DepRecord(paths_, version_, url_) ==
  Bind3(paths_, version_, url_, LAMBDA paths, version, url :
    [paths |-> paths, version |-> version, url |-> url])

\* JsonDepProvider.parent_dir, for the provider _init_deps creates with
\* parent_dir = tree.path_in_repo
parent_dir(parent_url) == path_in_repo(parent_url).val

\* The result of the trees property: the list built, or the exception.
TreesResult(kind_, trees_, w_) ==
  Bind3(kind_, trees_, w_, LAMBDA kind, trees, w :
    [kind |-> kind, trees |-> trees, ws |-> w])

RECURSIVE provider_trees_from(_, _, _, _)

\* JsonDepProvider.trees, the body of the loop for record i; r is the result
\* of repo.get_tree(dep_record.url): UserError is printed and the record
\* skipped, any other exception leaves the property.
provider_trees_got(w_, dep_records_, i_, trees_, r_) ==
  Bind5(w_, dep_records_, i_, trees_, r_, LAMBDA w, dep_records, i, trees, r :
    IF r.kind = "ok" THEN provider_trees_from(r.ws, dep_records, i + 1, Append(trees, r.tree))
    ELSE IF r.kind = "UserError" THEN provider_trees_from(w, dep_records, i + 1, trees)
    ELSE TreesResult(r.kind, trees, w))

\* JsonDepProvider.trees, the loop from record i on
provider_trees_from(w_, dep_records_, i_, trees_) ==
  Bind4(w_, dep_records_, i_, trees_, LAMBDA w, dep_records, i, trees :
    IF i > Len(dep_records) THEN TreesResult("ok", trees, w)
    ELSE provider_trees_got(w, dep_records, i, trees,
                            get_tree(w, dep_records[i].url, TRUE)))

\* JsonDepProvider.trees
provider_trees(w, dep_records) == provider_trees_from(w, dep_records, 1, <<>>)

RECURSIVE provider_initialize_from(_, _, _, _)

\* JsonDepProvider.initialize after tree.make_link(local_path) gave r
provider_initialize_linked(parent_, dep_records_, i_, r_) ==
  Bind4(parent_, dep_records_, i_, r_, LAMBDA parent, dep_records, i, r :
    IF r.kind # "ok" THEN r
    ELSE provider_initialize_from(r.ws, parent, dep_records, i + 1))

\* JsonDepProvider.initialize, setting up the symlink at local_path: an
\* existing link is removed first, anything else there raises UserError
provider_initialize_link(w_, parent_, dep_records_, i_, tree_, local_path_) ==
  Bind6(w_, parent_, dep_records_, i_, tree_, local_path_, LAMBDA w, parent, dep_records, i, tree, local_path :
    IF IsLink(w.fs, PathParts(local_path))
    THEN provider_initialize_linked(parent, dep_records, i,
            make_link(WithFs(w, RemoveEntry(w.fs, PathParts(local_path))), tree, local_path))
    ELSE IF EntryAt(w.fs, PathParts(local_path))
    THEN Outcome("UserError", w)
    ELSE provider_initialize_linked(parent, dep_records, i, make_link(w, tree, local_path)))

\* JsonDepProvider.initialize, the body of the loop for record i; r is the
\* result of repo.get_tree(dep_record.url)
provider_initialize_got(w_, parent_, dep_records_, i_, r_) ==
  Bind5(w_, parent_, dep_records_, i_, r_, LAMBDA w, parent, dep_records, i, r :
    IF r.kind = "ok"
    THEN provider_initialize_link(r.ws, parent, dep_records, i, r.tree,
                                  StrPathJoin(parent, dep_records[i].paths[1]))
    ELSE IF r.kind = "UserError"
    THEN provider_initialize_from(w, parent, dep_records, i + 1)
    ELSE Outcome(r.kind, w))

\* JsonDepProvider.initialize, the loop from record i on
provider_initialize_from(w_, parent_, dep_records_, i_) ==
  Bind4(w_, parent_, dep_records_, i_, LAMBDA w, parent, dep_records, i :
    IF i > Len(dep_records) THEN Outcome("ok", w)
    ELSE provider_initialize_got(w, parent, dep_records, i,
                                 get_tree(w, dep_records[i].url, TRUE)))

\* JsonDepProvider.initialize
provider_initialize(w, parent, dep_records) ==
  provider_initialize_from(w, parent, dep_records, 1)

-----------------------------------------------------------------------------
(* repo.py: the root tree, the tree of a directory, checkout of a tree;    *)
(* commands/checkout.py: checkout                                          *)

HEAD == <<"H","E","A","D">>

DEFAULT_DEPS_FILENAME == <<"m","o","d","u","l","e","_","d","e","p","s",".","j","s","o","n">>

ALL_DIR == <<"a","l","l">>

\* The elements of a list.
Range(seq_) ==
  Bind1(seq_, LAMBDA seq :
    { seq[i] : i \in 1..Len(seq) })

\* get_root_tree when the registry has no root record; ann is the result of
\* annotation.save_to_git_root(self.path)
get_root_tree_new(w_, ann_) ==
  Bind2(w_, ann_, LAMBDA w, ann :
    IF ann.kind # "ok" THEN TreeResult(ann.kind, None, w)
    ELSE tree_save([fs      |-> ann.fs,
                    aliases |-> add_alias(w.aliases, REPO_PATH, tree_id(ROOT_URL)).aliases,
                    trees   |-> w.trees],
                   ROOT_URL))

\* Repo.get_root_tree
get_root_tree(w_) ==
  Bind1(w_, LAMBDA w :
    IF DictGet(w.trees, tree_id(ROOT_URL)) # None
    THEN from_dict(w, w.trees[tree_id(ROOT_URL)])
    ELSE get_root_tree_new(w, save_to_git_root(w.fs, tree_id(ROOT_URL), REPO_PATH)))

\* GitExecutor.is_git_repository, the os.path.isfile(path/.git/HEAD) test
has_git_head(fs, path) == IsFile(fs, PathParts(path) \o <<DOT_GIT, HEAD>>)

\* Repo.tree_from_cwd once the annotation gave the tree id
tree_from_annotation(w_, tid_) ==
  Bind2(w_, tid_, LAMBDA w, tid :
    IF DictGet(w.trees, tid) = None THEN TreeResult("UserError", None, w)
    ELSE from_dict(w, w.trees[tid]))

\* Repo.tree_from_cwd for a cwd that is the top level of its git repository:
\* git rev-parse fails outside a repository, read_json_file without the file
tree_from_cwd(w_, cwd_) ==
  Bind2(w_, cwd_, LAMBDA w, cwd :
    IF ~has_git_head(w.fs, cwd) THEN TreeResult("UserError", None, w)
    ELSE IF ~IsFile(w.fs, annotation_file(cwd)) THEN TreeResult("OSError", None, w)
    ELSE tree_from_annotation(w, w.fs[annotation_file(cwd)].text))

\* JsonDepProvider.create_if_exists: the deps file of a directory
deps_file(dir) == PathParts(dir) \o <<DEFAULT_DEPS_FILENAME>>

\* DepRecord.read_from_file for the provider of a directory; a directory
\* without the file has no JsonDepProvider, and no .gitmodules gives a
\* SubmoduleDepProvider without submodules
read_dep_records(fs_, dir_) ==
  Bind2(fs_, dir_, LAMBDA fs, dir :
    IF IsFile(fs, deps_file(dir)) THEN fs[deps_file(dir)].text ELSE <<>>)

\* GitTreeRef.dependencies: _init_deps, then the trees of the providers.
\* git_fails holds the trees whose .gitmodules "git config -f" cannot list:
\* building their SubmoduleDepProvider raises UserError, and _deps stays unset
dependencies(w_, url_, git_fails_) ==
  Bind3(w_, url_, git_fails_, LAMBDA w, url, git_fails :
    IF url \in git_fails THEN TreesResult("UserError", <<>>, w)
    ELSE provider_trees(w, read_dep_records(w.fs, path_in_repo(url).val)))

\* GitTreeRef.checkout, its loop over self.dep_providers
initialize_providers(w_, dir_) ==
  Bind2(w_, dir_, LAMBDA w, dir :
    provider_initialize(w, dir, read_dep_records(w.fs, dir)))

\* What an instance of RepoTreesConfig has: the attributes __init__ sets,
\* the methods and the properties of the class.
RepoTreesConfigAttributes ==
  { "_config_file", "_contents", "save", "tree_dicts", "aliases", "add_alias",
    "get_tree_by_id" }

\* GitTreeRef.clone_args: it reads trees_config.reference_repo first; with
\* the attribute unset nothing is added to the arguments
clone_args(config_attributes) ==
  IF "reference_repo" \in config_attributes THEN Ok(<<>>) ELSE Raise("AttributeError")

\* The parameters of GitExecutor.clone(self, repository, directory)
clone_params == { "repository", "directory" }

\* GitExecutor.clone: GitError when the directory entry exists, else git
\* clone, which leaves a repository in the directory or fails (UserError)
git_clone(w_, url_, directory_, git_fails_) ==
  Bind4(w_, url_, directory_, git_fails_, LAMBDA w, url, directory, git_fails :
    IF EntryAt(w.fs, PathParts(directory)) THEN Outcome("GitError", w)
    ELSE IF url \in git_fails THEN Outcome("UserError", w)
    ELSE Outcome("ok", WithFs(w, DictSet(MakeDirs(w.fs, PathParts(directory) \o <<DOT_GIT>>).fs,
                                         PathParts(directory) \o <<DOT_GIT, HEAD>>,
                                         FileEntry(<<>>)))))

\* A call of git.clone(repository, directory, <keywords>): Python binds the
\* arguments to the parameters before the body runs
call_git_clone(w_, url_, directory_, keywords_, git_fails_) ==
  Bind5(w_, url_, directory_, keywords_, git_fails_,
    LAMBDA w, url, directory, keywords, git_fails :
      IF keywords \subseteq clone_params
      THEN git_clone(w, url, directory, git_fails)
      ELSE Outcome("TypeError", w))

\* GitTreeRef.checkout from the loop over self.dep_providers on:
\* self.dep_providers builds the providers (_init_deps), which raises
\* UserError for the trees of git_fails
tree_checkout_providers(w_, url_, git_fails_) ==
  Bind3(w_, url_, git_fails_, LAMBDA w, url, git_fails :
    IF url \in git_fails THEN Outcome("UserError", w)
    ELSE initialize_providers(w, path_in_repo(url).val))

\* GitTreeRef.checkout of a tree that has to be cloned: the arguments of the
\* call are evaluated first (args is self.clone_args), then clone is called
\* with the keyword clone_args
tree_checkout_clone(w_, url_, git_fails_, args_) ==
  Bind4(w_, url_, git_fails_, args_, LAMBDA w, url, git_fails, args :
    IF args.kind # "ok" THEN Outcome(args.kind, w)
    ELSE \* the clone, then the providers of the new clone
         LET cloned == call_git_clone(w, url, path_in_repo(url).val,
                                      {"clone_args"}, git_fails) IN
         IF cloned.kind # "ok" THEN cloned
         ELSE tree_checkout_providers(cloned.ws, url, git_fails))

\* GitTreeRef.checkout
tree_checkout(w_, url_, git_fails_) ==
  Bind3(w_, url_, git_fails_, LAMBDA w, url, git_fails :
    IF ~is_root_tree(url) /\ ~has_git_head(w.fs, path_in_repo(url).val)
    THEN tree_checkout_clone(w, url, git_fails, clone_args(RepoTreesConfigAttributes))
    ELSE tree_checkout_providers(w, url, git_fails))

\* os.path.join(repo.path, "all", tree.default_local_path)
all_path(url) == StrPathJoin(StrPathJoin(REPO_PATH, ALL_DIR), default_local_path(url).val)

\* A checkout that makes the link under all/ in a root checkout, and only then.
checkout_linked_in_root_checkout(r_, url_, is_root_checkout_) ==
  Bind3(r_, url_, is_root_checkout_, LAMBDA r, url, is_root_checkout :
    IF r.kind # "ok" \/ ~is_root_checkout THEN r
    ELSE make_link(r.ws, url, all_path(url)))

\* commands/checkout.py checkout after tree.checkout() gave r
checkout_linked(r_, url_, is_root_checkout_) ==
  Bind3(r_, url_, is_root_checkout_, LAMBDA r, url, is_root_checkout :
    IF r.kind # "ok" \/ is_root_checkout THEN r
    ELSE make_link(r.ws, url, all_path(url)))

\* commands/checkout.py checkout(repo, tree, is_root_checkout)
checkout(w_, url_, is_root_checkout_, git_fails_) ==
  Bind4(w_, url_, is_root_checkout_, git_fails_, LAMBDA w, url, is_root_checkout, git_fails :
    checkout_linked(tree_checkout(w, url, git_fails), url, is_root_checkout))

\* exec: the except clause of the loop catches UserError only
Caught(kind) == kind = "UserError"

\* exec: "if tree_dep in recursive_processed: continue"
InProcessed(tree_dep, recursive_processed) == tree_dep \in recursive_processed

\* exec: recursive_processed.add(tree_dep)
ProcessedNotAdded(recursive_processed, tree_dep) == recursive_processed

ProcessedAdd(recursive_processed, tree_dep) == recursive_processed \cup {tree_dep}

\* An except clause that drops the exception it caught.
ExceptionDropped(all_exceptions, kind, tree_dep) == all_exceptions

\* exec: "all_exceptions.append(e)" in the except clause; the exception is
\* named by the tree whose checkout raised it
ExceptionAppended(all_exceptions, kind, tree_dep) ==
  IF Caught(kind) THEN Append(all_exceptions, tree_dep) ELSE all_exceptions

\* exec: the place of the requested link: inside local_path when it is a
\* directory, under the tree's default name
requested_link(fs_, local_path_, url_) ==
  Bind3(fs_, local_path_, url_, LAMBDA fs, local_path, url :
    IF IsDir(fs, PathParts(local_path))
    THEN StrPathJoin(local_path, default_local_path(url).val)
    ELSE local_path)

-----------------------------------------------------------------------------
(* Inputs of the origin checks: URL specs assembled from parts.            *)

UrlPrefixes == { HTTPS, HTTP, <<"u","s","e","r","@">>, <<>>, <<"g","i","t",":","/","/">> }

UrlHosts == { <<"h","o","s","t">> }

UrlSeps == { <<":">>, <<"/">> }

UrlPaths ==
  { <<"o","r","g","/","r","e","p","o",".","g","i","t">>,
    <<"r","e","p","o",".","g","i","t",".","g","i","t">>,
    <<"r","e","p","o">>,
    <<"/","o","r","g","/","r","e","p","o",".","g","i","t">>,
    <<>> }

UrlSpecs ==
  { pre \o host \o sep \o path :
      pre \in UrlPrefixes, host \in UrlHosts, sep \in UrlSeps, path \in UrlPaths }

URL_HTTPS_EXAMPLE ==
  <<"h","t","t","p","s",":","/","/","h","o","s","t","/","o","r","g","/","r","e","p","o",".","g","i","t">>

URL_SSH_EXAMPLE ==
  <<"u","s","e","r","@","h","o","s","t",":","o","r","g","/","r","e","p","o",".","g","i","t">>

UP_EXAMPLE ==
  <<"h","o","s","t","/","o","r","g","/","r","e","p","o",".","g","i","t">>

\* What a tree may be compared with: another tree object, itself, or an
\* object of another type.
NotATree == [type |-> "str", url |-> <<>>, working_tree |-> "", oid |-> 0]

InitOrigin ==
  /\ o_pc = "new"
  /\ \E u \in UrlSpecs : o_a = GitTreeRef(u, 1)
  /\ o_b \in { GitTreeRef(u, 2) : u \in UrlSpecs } \cup {o_a, NotATree}
  /\ o_up = Raise("none")
  /\ o_alias = Raise("none")
  /\ o_cmp = [eq |-> FALSE, hash_a |-> <<>>, hash_b |-> <<>>, id_a |-> <<>>, id_b |-> <<>>]

\* Evaluate the origin's derived properties of o_a.
OriginNormalize ==
  /\ o_pc = "new"
  /\ o_up' = universe_path(o_a.url)
  /\ o_alias' = default_alias(o_a.url)
  /\ o_pc' = "normalized"
  /\ UNCHANGED <<o_a, o_b, o_cmp, notOrigin>>

\* Compare o_a with o_b, hash both and take their tree ids.
TreeCompare ==
  /\ o_pc = "normalized"
  /\ o_cmp' = [eq     |-> TreeEq(o_a, o_b),
               hash_a |-> TreeHash(o_a),
               hash_b |-> IF o_b.type = "GitTreeRef" THEN TreeHash(o_b) ELSE <<>>,
               id_a   |-> tree_id(o_a.url),
               id_b   |-> IF o_b.type = "GitTreeRef" THEN tree_id(o_b.url) ELSE <<>>]
  /\ o_pc' = "done"
  /\ UNCHANGED <<o_a, o_b, o_up, o_alias, notOrigin>>

-----------------------------------------------------------------------------
(* The alias table under arbitrary add_alias calls.                        *)

MaxAliasCalls == 4

ALIAS_FOO == <<"f","o","o">>

ALIAS_FOO_0 == <<"f","o","o","-","0">>

ALIAS_BAR == <<"b","a","r">>

AliasRequests == { ALIAS_FOO, ALIAS_FOO_0, ALIAS_BAR }

TREE_A == tree_id(URL_HTTPS_EXAMPLE)

TREE_B == tree_id(URL_SSH_EXAMPLE)

TREE_C == tree_id(ROOT_URL)

AliasTreeIds == { TREE_A, TREE_B, TREE_C }

EmptyDict == [x \in {} |-> None]

NoAliasCall ==
  [alias |-> <<>>, tree_id |-> <<>>, returned |-> <<>>, repeat |-> FALSE,
   before |-> EmptyDict]

InitAliasTable ==
  /\ al_aliases = EmptyDict
  /\ al_calls = 0
  /\ al_last = NoAliasCall
  /\ al_returned = EmptyDict

\* The table and the call record after an add_alias call that gave r.
AddAliasDone(alias, tid, r) ==
  /\ al_aliases' = r.aliases
  /\ al_last' = [alias |-> alias, tree_id |-> tid, returned |-> r.alias,
                 repeat |-> <<alias, tid>> \in DOMAIN al_returned,
                 before |-> al_aliases]
  /\ al_returned' = IF <<alias, tid>> \in DOMAIN al_returned
                    THEN al_returned
                    ELSE DictSet(al_returned, <<alias, tid>>, r.alias)

\* One call of add_alias(alias, tid).
AddAliasCall(alias, tid) ==
  /\ al_calls < MaxAliasCalls
  /\ \E r \in { add_alias(al_aliases, alias, tid) } : AddAliasDone(alias, tid, r)
  /\ al_calls' = al_calls + 1
  /\ UNCHANGED notAlias

-----------------------------------------------------------------------------
(* make_link under arbitrary calls on a workspace with entries in place.   *)

MaxLinkCalls == 2

URL_OTHER ==
  <<"h","t","t","p","s",":","/","/","h","o","s","t","/","o","r","g","/","o","t","h","e","r",".","g","i","t">>

\* The trees links are made for: two remotes, the SSH form of the first
\* (another tree at the same universe path) and the root tree.
LinkTrees == { URL_HTTPS_EXAMPLE, URL_SSH_EXAMPLE, URL_OTHER, ROOT_URL }

\* all/<default alias>, as commands/checkout.py makes it
TARGET_ALL == <<"/","w","s","/","a","l","l","/","r","e","p","o">>

\* a path two directories below the workspace directory
TARGET_DEEP == <<"/","w","s","/","t","p","/","l","i","b","/","r","e","p","o">>

\* a path directly in the workspace directory
TARGET_TOP == <<"/","w","s","/","r","e","p","o">>

\* a path outside the workspace
TARGET_OUT == <<"/","t","m","p","/","r","e","p","o">>

LinkTargets == { TARGET_ALL, TARGET_DEEP, TARGET_TOP, TARGET_OUT }

\* What may be at a target before the tool runs: nothing, a file, a
\* directory, a symlink somebody made to the tree's absolute path, a symlink
\* to somewhere else.
InitialEntries ==
  { None, FileEntry(<<>>), DirEntry,
    LinkEntry(path_in_repo(URL_HTTPS_EXAMPLE).val),
    LinkEntry(<<"/","t","m","p","/","x">>) }

\* The workspace directory with its control directory, and nothing else.
BareFs ==
  LET r == PathParts(REPO_PATH) IN
  (r :> DirEntry) @@ (r \o <<MMREPO_DIR>> :> DirEntry)
     @@ (r \o <<MMREPO_DIR, UNIVERSE_DIR>> :> DirEntry)

EmptyWorkspace == [fs |-> BareFs, trees |-> EmptyDict, aliases |-> EmptyDict]

NoWsCall ==
  [op |-> "none", url |-> <<>>, target |-> <<>>, kind |-> "none",
   repeat |-> FALSE, made_before |-> {}, before |-> EmptyWorkspace]

\* fs with entry e at the path of string p (None: nothing there); the
\* directories above it exist.
Place(fs_, p_, e_) ==
  Bind3(fs_, p_, e_, LAMBDA fs, p, e :
    IF e = None THEN fs
    ELSE DictSet(MakeDirs(fs, Parent(PathParts(p))).fs, PathParts(p), e))

InitLink ==
  /\ \E e1 \in InitialEntries, e2 \in InitialEntries :
        ws = WithFs(EmptyWorkspace, Place(Place(BareFs, TARGET_ALL, e1), TARGET_DEEP, e2))
  /\ ws_calls = 0
  /\ ws_last = NoWsCall
  /\ ws_made = {}

\* The workspace and the call record after a make_link call that gave r.
MakeLinkDone(url, target, r) ==
  /\ ws' = r.ws
  /\ ws_last' = [op |-> "make_link", url |-> url, target |-> target, kind |-> r.kind,
                 repeat |-> <<url, target>> \in ws_made, made_before |-> ws_made,
                 before |-> ws]
  /\ ws_made' = IF r.kind = "ok" /\ ~EntryAt(ws.fs, PathParts(target))
                   /\ EntryAt(r.ws.fs, PathParts(target))
                THEN ws_made \cup {<<url, target>>}
                ELSE ws_made

\* One call tree.make_link(target_path).
MakeLinkCall(url, target) ==
  /\ ws_calls < MaxLinkCalls
  /\ \E r \in { make_link(ws, url, target) } : MakeLinkDone(url, target, r)
  /\ ws_calls' = ws_calls + 1
  /\ UNCHANGED notWs

-----------------------------------------------------------------------------
(* A manifest provider under calls of trees and initialize.                *)

MaxManifest == 3

MaxProviderCalls == 2

\* no scheme and no ":" : universe_path raises UserError
URL_NO_SCHEME == <<"h","o","s","t","/","o","r","g","/","r","e","p","o",".","g","i","t">>

\* a scheme other than http(s)
URL_GIT_SCHEME ==
  <<"g","i","t",":","/","/","h","o","s","t","/","o","r","g","/","r","e","p","o",".","g","i","t">>

ManifestUrls == { URL_HTTPS_EXAMPLE, URL_OTHER, URL_NO_SCHEME, URL_GIT_SCHEME }

\* The path of record i in the manifest: "deps/d<i>"
DepPath(i) == <<"d","e","p","s","/","d">> \o DecStr(i)

\* The manifests: up to MaxManifest records, record i at path DepPath(i).
Manifests ==
  UNION { { [i \in 1..n |-> DepRecord(<<DepPath(i)>>, "v1", urls[i])] :
              urls \in [1..n -> ManifestUrls] } : n \in 1..MaxManifest }

ManifestParents == { ROOT_URL, URL_SSH_EXAMPLE }

NoProviderCall == [op |-> "none", kind |-> "none", trees |-> <<>>]

\* What the directory of the provider holds before the tool runs: nothing,
\* or a file or a directory somebody made at the path of one record.
BlockingEntries == { FileEntry(<<>>), DirEntry }

InitManifest ==
  /\ mf_deps \in Manifests
  /\ mf_parent \in ManifestParents
  /\ \/ mf_ws = EmptyWorkspace
     \/ \E i \in 1..Len(mf_deps), e \in BlockingEntries :
          mf_ws = WithFs(EmptyWorkspace,
                         Place(BareFs, StrPathJoin(parent_dir(mf_parent), DepPath(i)), e))
  /\ mf_calls = 0
  /\ mf_last = NoProviderCall

\* The provider's workspace and call record after trees gave r.
ProviderTreesDone(r) ==
  /\ mf_ws' = r.ws
  /\ mf_last' = [op |-> "trees", kind |-> r.kind, trees |-> r.trees]

\* One evaluation of provider.trees
ProviderTrees ==
  /\ mf_calls < MaxProviderCalls
  /\ \E r \in { provider_trees(mf_ws, mf_deps) } : ProviderTreesDone(r)
  /\ mf_calls' = mf_calls + 1
  /\ UNCHANGED <<mf_deps, mf_parent, notMf>>

\* The provider's workspace and call record after initialize gave r.
ProviderInitializeDone(r) ==
  /\ mf_ws' = r.ws
  /\ mf_last' = [op |-> "initialize", kind |-> r.kind, trees |-> <<>>]

\* One call of provider.initialize()
ProviderInitialize ==
  /\ mf_calls < MaxProviderCalls
  /\ \E r \in { provider_initialize(mf_ws, parent_dir(mf_parent), mf_deps) } :
        ProviderInitializeDone(r)
  /\ mf_calls' = mf_calls + 1
  /\ UNCHANGED <<mf_deps, mf_parent, notMf>>

-----------------------------------------------------------------------------
(* One run of the checkout command over a workspace whose trees declare    *)
(* their dependencies in manifests.                                        *)

MaxEdges == 3

MaxVisits == 2

\* a remote whose default alias is that of URL_HTTPS_EXAMPLE
URL_SAME_ALIAS == <<"h","t","t","p","s",":","/","/","h","o","s","t","/","r","e","p","o">>

WalkTreeSeq == << URL_HTTPS_EXAMPLE, URL_OTHER, URL_SAME_ALIAS >>

WalkTrees == Range(WalkTreeSeq)

AllTrees == WalkTrees \cup {ROOT_URL}

\* The dependency graphs: at most MaxEdges declarations "the tree in this
\* directory depends on that remote", cycles and self-dependencies included;
\* the last tree declares nothing.
Graphs ==
  { g \in SUBSET ((AllTrees \ {URL_SAME_ALIAS}) \X WalkTrees) : Cardinality(g) <= MaxEdges }

\* What can be wrong with a tree's directory: nothing; a tree is not cloned
\* yet; it is not cloned and its place in the universe holds a directory
\* that is not a repository (stale); git fails in the directory of a tree.
Conditions ==
  { [missing |-> {}, stale |-> {}, git_fails |-> {}],
    [missing |-> {URL_OTHER}, stale |-> {}, git_fails |-> {}],
    [missing |-> {URL_OTHER}, stale |-> {URL_OTHER}, git_fails |-> {}],
    [missing |-> {}, stale |-> {}, git_fails |-> {URL_HTTPS_EXAMPLE}],
    [missing |-> {}, stale |-> {}, git_fails |-> {URL_OTHER}] }

\* "/ws/tp", a directory that exists when the command line names it
TARGET_DIR == <<"/","w","s","/","t","p">>

\* The command lines: "mmr checkout", "mmr checkout <url>" and
\* "mmr checkout <url> <local path>"
CommandLines ==
  { <<>>, <<URL_OTHER>>, <<URL_OTHER, TARGET_DEEP>>, <<URL_OTHER, TARGET_DIR>>,
    <<URL_OTHER, TARGET_TOP>> }

\* The remotes the manifest in the directory of tree d names, in file order.
DeclaredSeq(graph, d) == SelectSeq(WalkTreeSeq, LAMBDA u : <<d, u>> \in graph)

\* The content of module_deps.json in the directory of tree d.
ManifestOf(graph_, d_) ==
  Bind2(graph_, d_, LAMBDA graph, d :
    [i \in 1..Len(DeclaredSeq(graph, d)) |->
       DepRecord(<<DepPath(i)>>, "v1", DeclaredSeq(graph, d)[i])])

\* fs with the manifest of tree d, when it declares anything.
WithManifest(fs_, graph_, d_) ==
  Bind3(fs_, graph_, d_, LAMBDA fs, graph, d :
    IF DeclaredSeq(graph, d) = <<>> THEN fs
    ELSE Place(fs, StrPathJoin(path_in_repo(d).val, DEFAULT_DEPS_FILENAME),
               FileEntry(ManifestOf(graph, d))))

\* fs with the clone of tree d and its manifest, unless d is not cloned.
WithClone(fs_, env_, d_) ==
  Bind3(fs_, env_, d_, LAMBDA fs, env, d :
    IF d \in env.stale THEN Place(fs, path_in_repo(d).val, DirEntry)
    ELSE IF d \in env.missing THEN fs
    ELSE WithManifest(Place(fs, StrPathJoin(StrPathJoin(path_in_repo(d).val, DOT_GIT), HEAD),
                            FileEntry(<<>>)),
                      env.graph, d))

\* The workspace "mmr init" leaves in a top-level directory that is a git
\* repository, with the clones that are in the universe.
InitialWorkspace(env_) ==
  Bind1(env_, LAMBDA env :
    get_root_tree(
      WithFs(EmptyWorkspace,
             WithClone(WithClone(WithClone(WithClone(BareFs, env, ROOT_URL), env,
                       WalkTreeSeq[1]), env, WalkTreeSeq[2]), env, WalkTreeSeq[3]))).ws)

NoLocals ==
  [tree |-> <<>>, is_root_checkout |-> FALSE, all_depends |-> {},
   recursive_processed |-> {}, recursive_errored |-> {}, all_exceptions |-> <<>>,
   pending |-> {}]

NoVisit == [tree |-> <<>>, kind |-> "none", deps |-> {}]

NoHistory ==
  [count |-> [t \in AllTrees |-> 0], last |-> NoVisit, start |-> "none", exit |-> "none"]

\* The workspace a run of the command starts in.
WalkStart(env_) ==
  Bind1(env_, LAMBDA env :
    IF Len(env.args) = 2 /\ env.args[2] = TARGET_DIR
    THEN WithFs(InitialWorkspace(env), Place(InitialWorkspace(env).fs, TARGET_DIR, DirEntry))
    ELSE InitialWorkspace(env))

InitWalk ==
  /\ wk_env \in { [args |-> a, graph |-> g, missing |-> c.missing, stale |-> c.stale,
                   git_fails |-> c.git_fails] :
                    a \in CommandLines, g \in Graphs, c \in Conditions }
  /\ wk_ws = WalkStart(wk_env)
  /\ wk_pc = "start"
  /\ wk = NoLocals
  /\ wk_hist = NoHistory

\* exec ends with an exception of the given kind.
ExecRaises(kind, w) ==
  /\ wk_pc' = "failed"
  /\ wk_ws' = w
  /\ wk_hist' = [wk_hist EXCEPT !.exit = kind]

\* exec going on to the link and the walk whatever the start tree's checkout
\* gave.
ExecCheckedOutGoesOn(url, r) ==
  /\ wk' = [wk EXCEPT !.tree = url, !.is_root_checkout = (wk_env.args = <<>>)]
  /\ wk_ws' = r.ws
  /\ wk_pc' = "link"
  /\ wk_hist' = [wk_hist EXCEPT !.count[url] = @ + 1, !.start = r.kind]

\* exec lines 60-61, after checkout(repo, tree, is_root_checkout) gave r
ExecCheckedOut(url, r) ==
  /\ wk' = [wk EXCEPT !.tree = url, !.is_root_checkout = (wk_env.args = <<>>)]
  /\ wk_ws' = r.ws
  /\ wk_pc' = IF r.kind = "ok" THEN "link" ELSE "failed"
  /\ wk_hist' = [wk_hist EXCEPT !.count[url] = @ + 1,
                                !.start = r.kind,
                                !.exit = IF r.kind = "ok" THEN @ ELSE r.kind]

\* exec lines 45-61, after the start tree was looked up (t)
ExecFound(t) ==
  IF t.kind # "ok" THEN ExecRaises(t.kind, t.ws) /\ UNCHANGED wk
  ELSE \E r \in { checkout(t.ws, t.tree, wk_env.args = <<>>, wk_env.git_fails) } :
          ExecCheckedOut(t.tree, r)

\* exec lines 45-61: find the start tree and check it out
ExecBegin ==
  /\ wk_pc = "start"
  /\ \E t \in { IF wk_env.args = <<>>
                 THEN tree_from_cwd(wk_ws, REPO_PATH)
                 ELSE get_tree(wk_ws, wk_env.args[1], TRUE) } : ExecFound(t)
  /\ UNCHANGED <<wk_env, notWalk>>

\* exec lines 72-79, after tree.dependencies gave d
ExecSeeded(d) ==
  IF d.kind # "ok" THEN ExecRaises(d.kind, d.ws) /\ UNCHANGED wk
  ELSE /\ wk' = [wk EXCEPT !.all_depends = {wk.tree} \cup Range(d.trees),
                           !.recursive_processed = {wk.tree}]
       /\ wk_ws' = d.ws
       /\ wk_pc' = "loop"
       /\ UNCHANGED wk_hist

\* exec lines 63-79, after the requested link was made (r)
ExecLinked(r) ==
  IF r.kind # "ok" THEN ExecRaises(r.kind, r.ws) /\ UNCHANGED wk
  ELSE \E d \in { dependencies(r.ws, wk.tree, wk_env.git_fails) } : ExecSeeded(d)

\* exec lines 63-79: the requested link, the sets, the start tree's dependencies
ExecSeed ==
  /\ wk_pc = "link"
  /\ \E r \in { IF Len(wk_env.args) = 2
                 THEN make_link(wk_ws, wk.tree,
                                requested_link(wk_ws.fs, wk_env.args[2], wk.tree))
                 ELSE Outcome("ok", wk_ws) } : ExecLinked(r)
  /\ UNCHANGED <<wk_env, notWalk>>

\* exec lines 81-82: the test of the while loop and set(all_depends)
ExecLoopTest ==
  /\ wk_pc = "loop"
  /\ IF wk.all_depends = wk.recursive_processed
     THEN wk_pc' = "report" /\ UNCHANGED wk
     ELSE wk_pc' = "for" /\ wk' = [wk EXCEPT !.pending = wk.all_depends]
  /\ UNCHANGED <<wk_env, wk_ws, wk_hist, notWalk>>

\* Where the for loop stands once pending is what is left of the snapshot.
AfterIteration(pending) == IF pending = {} THEN "loop" ELSE "for"

\* exec lines 83-84: a tree of the snapshot that is processed already
ExecSkip(tree_dep) ==
  /\ wk_pc = "for"
  /\ tree_dep \in wk.pending
  /\ InProcessed(tree_dep, wk.recursive_processed)
  /\ wk' = [wk EXCEPT !.pending = @ \ {tree_dep}]
  /\ wk_pc' = AfterIteration(wk.pending \ {tree_dep})
  /\ UNCHANGED <<wk_env, wk_ws, wk_hist, notWalk>>

\* exec line 92, after tree_dep.dependencies gave d; r is what checkout gave
ExecVisitedDeps(tree_dep, r, d) ==
  IF d.kind # "ok"
  THEN /\ wk' = [wk EXCEPT
                   !.recursive_processed = ProcessedAdd(@, tree_dep),
                   !.recursive_errored = IF r.kind = "ok" THEN @ ELSE @ \cup {tree_dep},
                   !.all_exceptions = ExceptionAppended(@, r.kind, tree_dep)]
       /\ wk_ws' = d.ws
       /\ wk_pc' = "failed"
       /\ wk_hist' = [wk_hist EXCEPT !.count[tree_dep] = @ + 1, !.exit = d.kind,
                        !.last = [tree |-> tree_dep, kind |-> r.kind, deps |-> {}]]
  ELSE /\ wk' = [wk EXCEPT
                   !.recursive_processed = ProcessedAdd(@, tree_dep),
                   !.recursive_errored = IF r.kind = "ok" THEN @ ELSE @ \cup {tree_dep},
                   !.all_exceptions = ExceptionAppended(@, r.kind, tree_dep),
                   !.all_depends = @ \cup Range(d.trees),
                   !.pending = @ \ {tree_dep}]
       /\ wk_ws' = d.ws
       /\ wk_pc' = AfterIteration(wk.pending \ {tree_dep})
       /\ wk_hist' = [wk_hist EXCEPT !.count[tree_dep] = @ + 1,
                        !.last = [tree |-> tree_dep, kind |-> r.kind, deps |-> Range(d.trees)]]

\* exec lines 85-92, after checkout(repo, tree_dep, is_root_checkout) gave r
ExecVisited(tree_dep, r) ==
  IF r.kind # "ok" /\ ~Caught(r.kind)
  THEN /\ wk' = [wk EXCEPT !.recursive_processed = ProcessedAdd(@, tree_dep)]
       /\ wk_pc' = "failed"
       /\ wk_ws' = r.ws
       /\ wk_hist' = [wk_hist EXCEPT !.count[tree_dep] = @ + 1, !.exit = r.kind,
                        !.last = [tree |-> tree_dep, kind |-> r.kind, deps |-> {}]]
  ELSE \E d \in { dependencies(r.ws, tree_dep, wk_env.git_fails) } :
          ExecVisitedDeps(tree_dep, r, d)

\* exec lines 83-92: a tree of the snapshot that is not processed yet
ExecVisit(tree_dep) ==
  /\ wk_pc = "for"
  /\ tree_dep \in wk.pending
  /\ ~InProcessed(tree_dep, wk.recursive_processed)
  /\ wk_hist.count[tree_dep] < MaxVisits
  /\ \E r \in { checkout(wk_ws, tree_dep, wk.is_root_checkout, wk_env.git_fails) } :
        ExecVisited(tree_dep, r)
  /\ UNCHANGED <<wk_env, notWalk>>

\* exec lines 94-102: the report
ExecReport ==
  /\ wk_pc = "report"
  /\ wk_pc' = "done"
  /\ wk_hist' = [wk_hist EXCEPT !.exit = "ok"]
  /\ UNCHANGED <<wk_env, wk_ws, wk, notWalk>>

-----------------------------------------------------------------------------
(* version_map.py: VersionComponent and VersionMap                         *)

EQUALS == "="

AT == "@"

SPACE == " "

\* WHITESPACE_PAT, the characters of the class [\s|\n|\r]: white space and
\* the bar
WHITESPACE_PAT == { " ", "\t", "\n", "\r", "\f", "|" }

\* The positions of s where the c of "(.*)c([^c]+)" can stand: a c that a
\* character other than c follows, with no line break before it ("." does
\* not match "\n").
ExtractPlaces(s_, c_) ==
  Bind2(s_, c_, LAMBDA s, c :
    { i \in 1..(Len(s) - 1) :
        s[i] = c /\ s[i + 1] # c /\ \A k \in 1..(i - 1) : s[k] # "\n" })

\* re.match of "(.*)c([^c]+)" on s: where the c of the pattern stands, the
\* last of the places (".*" is greedy); 0 without a match.
ExtractAt(s_, c_) ==
  Bind2(s_, c_, LAMBDA s, c :
    IF ExtractPlaces(s, c) # {}
    THEN CHOOSE i \in ExtractPlaces(s, c) : \A j \in ExtractPlaces(s, c) : j <= i
    ELSE 0)

\* group(2) of that match: the characters other than c that follow at.
ExtractGroup2(s_, c_, at_) ==
  Bind3(s_, c_, at_, LAMBDA s, c, at :
    SubSeq(s, at + 1,
           CHOOSE j \in (at + 1)..Len(s) :
             /\ \A k \in (at + 1)..j : s[k] # c
             /\ (j = Len(s) \/ s[j + 1] = c)))

\* The namedtuple VersionComponent.  tree is the spec string of a parsed
\* component (is_tree FALSE) or the URL of the tree it resolved to.
VersionComponent(tree_, is_tree_, resolved_version_, symbolic_version_) ==
  Bind4(tree_, is_tree_, resolved_version_, symbolic_version_,
    LAMBDA tree, is_tree, resolved_version, symbolic_version :
      [tree |-> tree, is_tree |-> is_tree, resolved_version |-> resolved_version,
       symbolic_version |-> symbolic_version])

\* VersionComponent.parse once the resolved version is extracted
component_parse_symbolic(spec_, resolved_version_, m_) ==
  Bind3(spec_, resolved_version_, m_, LAMBDA spec, resolved_version, m :
    IF m = 0 THEN VersionComponent(spec, FALSE, resolved_version, None)
    ELSE VersionComponent(SubSeq(spec, 1, m - 1), FALSE, resolved_version,
                          ExtractGroup2(spec, AT, m)))

\* VersionComponent.parse after EXTRACT_RESOLVED_PAT.match(spec) gave m
component_parse_resolved(spec_, m_) ==
  Bind2(spec_, m_, LAMBDA spec, m :
    IF m = 0 THEN component_parse_symbolic(spec, None, ExtractAt(spec, AT))
    ELSE component_parse_symbolic(SubSeq(spec, 1, m - 1), ExtractGroup2(spec, EQUALS, m),
                                  ExtractAt(SubSeq(spec, 1, m - 1), AT)))

\* A parse that takes the resolved version at the first "=" of the spec.
component_parse_first(spec_) ==
  Bind1(spec_, LAMBDA spec :
    component_parse_resolved(spec,
      IF ExtractPlaces(spec, EQUALS) = {} THEN 0
      ELSE CHOOSE i \in ExtractPlaces(spec, EQUALS) :
             \A j \in ExtractPlaces(spec, EQUALS) : i <= j))

\* VersionComponent.parse
component_parse(spec_) ==
  Bind1(spec_, LAMBDA spec : component_parse_resolved(spec, ExtractAt(spec, EQUALS)))

\* VersionComponent.__str__
component_str(c_) ==
  Bind1(c_, LAMBDA c :
    (IF c.is_tree THEN tree_id(c.tree) ELSE c.tree)
      \o (IF c.symbolic_version # None THEN <<AT>> \o c.symbolic_version ELSE <<>>)
      \o (IF c.resolved_version # None THEN <<EQUALS>> \o c.resolved_version ELSE <<>>))

\* Repo.tree_from_id: the tree the registry holds under an id, or None
tree_from_id(w_, tid_) ==
  Bind2(w_, tid_, LAMBDA w, tid :
    IF DictGet(w.trees, tid) = None THEN None ELSE w.trees[tid].url)

\* Repo.tree_from_alias: the tree an alias is bound to, or None
tree_from_alias(w_, alias_) ==
  Bind2(w_, alias_, LAMBDA w, alias :
    IF DictGet(w.aliases, alias) = None THEN None ELSE tree_from_id(w, w.aliases[alias]))

\* GitExecutor.ls_remote: the refs of a remote, ref name -> commit id
ls_remote(remote_refs, url) == remote_refs[url]

\* The result of a resolve: the outcome, the value, and the remotes whose
\* refs were listed on the way (the ls_remote calls, in order).
ResolveResult(kind_, val_, asked_) ==
  Bind3(kind_, val_, asked_, LAMBDA kind, val, asked :
    [kind |-> kind, val |-> val, asked |-> asked])

\* VersionComponent.resolve, the branch "if resolved_version is None":
\* refs is what repo.git.ls_remote(tree.url) gave
component_resolve_symbolic(tree_, symbolic_version_, refs_) ==
  Bind3(tree_, symbolic_version_, refs_, LAMBDA tree, symbolic_version, refs :
    IF DictGet(refs, symbolic_version) # None
    THEN ResolveResult("ok", VersionComponent(tree, TRUE, refs[symbolic_version],
                                              symbolic_version), <<tree>>)
    ELSE ResolveResult("UserError", None, <<tree>>))

\* A resolve that lists the remote's refs whether or not a resolved version
\* is given.
component_resolve_always_asks(c_, tree_, remote_refs_) ==
  Bind3(c_, tree_, remote_refs_, LAMBDA c, tree, remote_refs :
    component_resolve_symbolic(tree,
      IF c.symbolic_version # None THEN c.symbolic_version ELSE HEAD,
      ls_remote(remote_refs, tree)))

\* VersionComponent.resolve from "If no resolved_commit" on
component_resolve_version(c_, tree_, remote_refs_) ==
  Bind3(c_, tree_, remote_refs_, LAMBDA c, tree, remote_refs :
    IF c.resolved_version # None
    THEN ResolveResult("ok", VersionComponent(tree, TRUE, c.resolved_version,
                                              c.symbolic_version), <<>>)
    ELSE component_resolve_symbolic(tree,
           IF c.symbolic_version # None THEN c.symbolic_version ELSE HEAD,
           ls_remote(remote_refs, tree)))

\* VersionComponent.resolve once the tree is looked up; the raise for an
\* unknown tree names tree_specs, which is not defined
component_resolve_tree(c_, tree_, remote_refs_) ==
  Bind3(c_, tree_, remote_refs_, LAMBDA c, tree, remote_refs :
    IF tree = None THEN ResolveResult("NameError", None, <<>>)
    ELSE component_resolve_version(c, tree, remote_refs))

\* VersionComponent.resolve of a parsed component
component_resolve(w_, remote_refs_, c_) ==
  Bind3(w_, remote_refs_, c_, LAMBDA w, remote_refs, c :
    component_resolve_tree(c,
      IF tree_from_id(w, c.tree) # None THEN tree_from_id(w, c.tree)
      ELSE tree_from_alias(w, c.tree),
      remote_refs))

\* The first position from i on where spec has (sep TRUE) or has not (sep
\* FALSE) a character of WHITESPACE_PAT; Len(spec) + 1 when there is none.
whitespace_next(spec_, i_, sep_) ==
  Bind3(spec_, i_, sep_, LAMBDA spec, i, sep :
    IF \E j \in i..Len(spec) : (spec[j] \in WHITESPACE_PAT) = sep
    THEN CHOOSE j \in i..Len(spec) :
           /\ (spec[j] \in WHITESPACE_PAT) = sep
           /\ \A k \in i..(j - 1) : (spec[k] \in WHITESPACE_PAT) # sep
    ELSE Len(spec) + 1)

\* WHITESPACE_PAT.split(spec) from position i on, where a piece begins:
\* the piece runs to the next run of separators at sep, the next piece
\* begins after that run; out is the pieces before i
RECURSIVE whitespace_split_from(_, _, _, _)
whitespace_split_from(spec_, i_, sep_, out_) ==
  Bind4(spec_, i_, sep_, out_, LAMBDA spec, i, sep, out :
    IF sep > Len(spec) THEN Append(out, SubSeq(spec, i, Len(spec)))
    ELSE whitespace_split_from(spec, whitespace_next(spec, sep, FALSE),
                               whitespace_next(spec, whitespace_next(spec, sep, FALSE), TRUE),
                               Append(out, SubSeq(spec, i, sep - 1))))

\* WHITESPACE_PAT.split(spec)
whitespace_split(spec) == whitespace_split_from(spec, 1, whitespace_next(spec, 1, TRUE), <<>>)

\* VersionMap.parse(*specs) from the i-th spec on
RECURSIVE map_parse_from(_, _, _)
map_parse_from(specs_, i_, components_) ==
  Bind3(specs_, i_, components_, LAMBDA specs, i, components :
    IF i > Len(specs) THEN components
    ELSE map_parse_from(specs, i + 1,
           components \o [k \in 1..Len(whitespace_split(specs[i])) |->
                            component_parse(whitespace_split(specs[i])[k])]))

\* VersionMap.parse(*specs): the components
map_parse(specs) == map_parse_from(specs, 1, <<>>)

\* VersionMap.resolve, the list comprehension from component i on: the
\* first failure is raised and the components after it are not resolved
RECURSIVE map_resolve_from(_, _, _, _, _, _)
map_resolve_from(w_, remote_refs_, components_, i_, resolved_, asked_) ==
  Bind6(w_, remote_refs_, components_, i_, resolved_, asked_,
    LAMBDA w, remote_refs, components, i, resolved, asked :
      IF i > Len(components) THEN ResolveResult("ok", resolved, asked)
      ELSE LET r == component_resolve(w, remote_refs, components[i]) IN
           IF r.kind # "ok" THEN ResolveResult(r.kind, None, asked \o r.asked)
           ELSE map_resolve_from(w, remote_refs, components, i + 1,
                                 Append(resolved, r.val), asked \o r.asked))

\* A resolve that looks at the first component only.
map_resolve_first(w, remote_refs, components) ==
  map_resolve_from(w, remote_refs,
                   IF components = <<>> THEN <<>> ELSE <<components[1]>>, 1, <<>>, <<>>)

\* VersionMap.resolve(repo)
map_resolve(w, remote_refs, components) ==
  map_resolve_from(w, remote_refs, components, 1, <<>>, <<>>)

\* VersionMap.__str__: " ".join of the components from the i-th on
RECURSIVE map_str_from(_, _)
map_str_from(components_, i_) ==
  Bind2(components_, i_, LAMBDA components, i :
    IF i > Len(components) THEN <<>>
    ELSE (IF i > 1 THEN <<SPACE>> ELSE <<>>) \o component_str(components[i])
           \o map_str_from(components, i + 1))

\* VersionMap.__str__
map_str(components) == map_str_from(components, 1)

-----------------------------------------------------------------------------
(* repo.py: update_version and lookup_versions; git.py: checkout_version   *)

\* The result of a git operation: its outcome and git's state afterwards,
\* the version checked out in each tree and the commands run.
GitResult(kind_, g_) ==
  Bind2(kind_, g_, LAMBDA kind, g : [kind |-> kind, git |-> g])

\* GitExecutor.checkout_version: "git fetch", then "git checkout <version>";
\* git_fails holds the trees in whose directory git commands fail
checkout_version(g_, url_, version_, git_fails_) ==
  Bind4(g_, url_, version_, git_fails_, LAMBDA g, url, version, git_fails :
    IF url \in git_fails
    THEN GitResult("UserError", [g EXCEPT !.log = Append(@, <<"fetch", url>>)])
    ELSE GitResult("ok",
           [versions |-> [g.versions EXCEPT ![url] = version],
            log      |-> g.log \o << <<"fetch", url>>, <<"checkout", url>> >>]))

\* The parameters of GitTreeRef.update_version(self, version)
update_version_params == { "version" }

\* GitTreeRef.update_version
update_version(g, url, version, git_fails) == checkout_version(g, url, version, git_fails)

\* A call of tree.update_version(version, <keywords>): Python binds the
\* arguments to the parameters before the body runs
call_update_version(g_, url_, version_, keywords_, git_fails_) ==
  Bind5(g_, url_, version_, keywords_, git_fails_, LAMBDA g, url, version, keywords, git_fails :
    IF keywords \subseteq update_version_params
    THEN update_version(g, url, version, git_fails)
    ELSE GitResult("TypeError", g))

\* The result of the lookup_versions calls: (tree, version) pairs.
VersionsResult(kind_, pairs_, w_) ==
  Bind3(kind_, pairs_, w_, LAMBDA kind, pairs, w : [kind |-> kind, pairs |-> pairs, ws |-> w])

\* SubmoduleDepProvider.lookup_versions after _tree_for_path gave r for the
\* i-th pin
RECURSIVE submodule_lookup_versions_from(_, _, _, _)
submodule_lookup_versions_got(w_, pins_, i_, results_, r_) ==
  Bind5(w_, pins_, i_, results_, r_, LAMBDA w, pins, i, results, r :
    IF r.kind = "ok"
    THEN submodule_lookup_versions_from(r.ws, pins, i + 1,
                                        Append(results, <<r.tree, pins[i].version>>))
    ELSE IF r.kind = "UserError"
    THEN submodule_lookup_versions_from(r.ws, pins, i + 1, results)
    ELSE VersionsResult(r.kind, results, r.ws))

\* SubmoduleDepProvider.lookup_versions from the i-th pin on; pins is what
\* git submodule status and .gitmodules give: the URL and the version
submodule_lookup_versions_from(w_, pins_, i_, results_) ==
  Bind4(w_, pins_, i_, results_, LAMBDA w, pins, i, results :
    IF i > Len(pins) THEN VersionsResult("ok", results, w)
    ELSE submodule_lookup_versions_got(w, pins, i, results, get_tree(w, pins[i].url, TRUE)))

\* SubmoduleDepProvider.lookup_versions
submodule_lookup_versions(w, pins) == submodule_lookup_versions_from(w, pins, 1, <<>>)

\* version_map exec lines 93-95 after the submodule provider gave r: a tree with a deps
\* file has a JsonDepProvider too, a class without lookup_versions
lookup_versions_json(r_, dir_) ==
  Bind2(r_, dir_, LAMBDA r, dir :
    IF r.kind = "ok" /\ IsFile(r.ws.fs, deps_file(dir))
    THEN VersionsResult("AttributeError", r.pairs, r.ws)
    ELSE r)

\* version_map exec lines 93-95: lookup_versions of each of tree.dep_providers
lookup_versions(w_, url_, pins_) ==
  Bind3(w_, url_, pins_, LAMBDA w, url, pins :
    lookup_versions_json(submodule_lookup_versions(w, pins), path_in_repo(url).val))

-----------------------------------------------------------------------------
(* One run of the version_map command over a workspace whose three trees   *)
(* are registered and cloned.                                              *)

V0 == <<"v","0">>

V1 == <<"v","1">>

V2 == <<"v","2">>

V3 == <<"v","3">>

COMMIT_HEAD == <<"c","0">>

COMMIT_V1 == <<"c","1">>

COMMIT_V2 == <<"c","2">>

\* a remote given in the SSH form: "git@host:org/lib.git"
URL_LIB == <<"g","i","t","@","h","o","s","t",":","o","r","g","/","l","i","b",".","g","i","t">>

SetTreeSeq == << URL_HTTPS_EXAMPLE, URL_OTHER, URL_LIB >>

SetTrees == Range(SetTreeSeq)

\* "repo=v1": the first tree by its alias, with a resolved version
SPEC_REPO == <<"r","e","p","o","=","v","1">>

\* "other=v2"
SPEC_OTHER == <<"o","t","h","e","r","=","v","2">>

\* "repo=v1 other=v2" in one argument
SPEC_BOTH == SPEC_REPO \o <<SPACE>> \o SPEC_OTHER

\* "repo@v1 other@v2": symbolic versions, resolved from the remotes' refs
SPEC_SYMBOLIC == <<"r","e","p","o","@","v","1"," ","o","t","h","e","r","@","v","2">>

\* "git/https://host/org/repo.git=v1": the first tree by its id
SPEC_ID == tree_id(URL_HTTPS_EXAMPLE) \o <<"=","v","1">>

\* "other": no version, HEAD is looked up
SPEC_HEAD == <<"o","t","h","e","r">>

\* "repo@dev": a ref the remote does not have
SPEC_NO_REF == <<"r","e","p","o","@","d","e","v">>

\* "nosuch=v1": no tree has this id or alias
SPEC_UNKNOWN == <<"n","o","s","u","c","h","=","v","1">>

\* "lib=v1": the tree of the SSH-form remote, with a resolved version
SPEC_LIB == <<"l","i","b","=","v","1">>

\* "lib@v1": the same tree with a symbolic version
SPEC_LIB_SYMBOLIC == <<"l","i","b","@","v","1">>

\* The specs arguments of the command lines.
SetSpecs ==
  { <<>>, <<SPEC_REPO>>, <<SPEC_BOTH>>, <<SPEC_OTHER, SPEC_REPO>>, <<SPEC_SYMBOLIC>>,
    <<SPEC_ID, SPEC_OTHER>>, <<SPEC_HEAD>>, <<SPEC_NO_REF>>, <<SPEC_REPO, SPEC_UNKNOWN>>,
    <<SPEC_LIB>>, <<SPEC_LIB_SYMBOLIC>>, <<SPEC_REPO, SPEC_HEAD>> }

\* What the remotes list as their refs.
SetRemoteRefs ==
  (URL_HTTPS_EXAMPLE :> ((HEAD :> COMMIT_HEAD) @@ (V1 :> COMMIT_V1)))
    @@ (URL_OTHER :> ((HEAD :> COMMIT_HEAD) @@ (V2 :> COMMIT_V2)))
    @@ (URL_LIB :> ((HEAD :> COMMIT_HEAD) @@ (V1 :> COMMIT_V1)))

\* The submodule pin "other has repo as a submodule at v3".
PIN_REPO_V3 == [url |-> URL_HTTPS_EXAMPLE, version |-> V3]

\* "lib as a submodule at v1" and "repo as a submodule at v2"
PIN_LIB_V1 == [url |-> URL_LIB, version |-> V1]

PIN_REPO_V2 == [url |-> URL_HTTPS_EXAMPLE, version |-> V2]

\* "other as a submodule at v2"
PIN_OTHER_V2 == [url |-> URL_OTHER, version |-> V2]

\* What git submodule status gives in each tree, from the pins of the trees
\* that have submodules.
PinsOf(other_, lib_) ==
  Bind2(other_, lib_, LAMBDA other, lib :
    [t \in SetTrees |-> IF t = URL_OTHER THEN other ELSE IF t = URL_LIB THEN lib ELSE <<>>])

\* How the trees declare each other: not at all; other has repo as a
\* submodule pinned at v3; other names repo in a manifest; other has repo at
\* v3 and lib at v1 as submodules, and lib has repo at v2; other has lib at
\* v1 and lib has other at v2 (a cycle).
SetLayouts ==
  { [graph |-> {}, pins |-> PinsOf(<<>>, <<>>)],
    [graph |-> {}, pins |-> PinsOf(<<PIN_REPO_V3>>, <<>>)],
    [graph |-> {<<URL_OTHER, URL_HTTPS_EXAMPLE>>}, pins |-> PinsOf(<<>>, <<>>)],
    [graph |-> {}, pins |-> PinsOf(<<PIN_REPO_V3, PIN_LIB_V1>>, <<PIN_REPO_V2>>)],
    [graph |-> {}, pins |-> PinsOf(<<PIN_LIB_V1>>, <<PIN_OTHER_V2>>)] }

\* The trees in whose directory git commands fail.
SetGitFails == { {}, {URL_OTHER}, {URL_HTTPS_EXAMPLE} }

\* The workspace of "mmr init" with the clones, after the trees were
\* registered by a checkout.
SetWorkspace(env_) ==
  Bind1(env_, LAMBDA env :
    LET init == InitialWorkspace([graph |-> env.graph, missing |-> {}, stale |-> {}])
        cloned == WithFs(init, WithClone(init.fs, [graph |-> env.graph, missing |-> {}, stale |-> {}],
                                         URL_LIB))
    IN get_tree(get_tree(get_tree(cloned, SetTreeSeq[1], TRUE).ws,
                         SetTreeSeq[2], TRUE).ws,
                SetTreeSeq[3], TRUE).ws)

NoSetLocals ==
  [version_map |-> <<>>, out |-> <<>>, asked |-> <<>>, pending_tree_specs |-> <<>>,
   current_tree_specs |-> <<>>, processed_trees |-> {},
   git |-> [versions |-> [t \in SetTrees |-> V0], log |-> <<>>], exit |-> "none"]

InitSet ==
  /\ sv_env \in { [specs |-> s, set |-> b, no_fetch |-> nf, graph |-> l.graph,
                   pins |-> l.pins, git_fails |-> gf] :
                    s \in SetSpecs, b \in BOOLEAN, nf \in BOOLEAN, l \in SetLayouts,
                    gf \in SetGitFails }
  /\ sv_ws = SetWorkspace(sv_env)
  /\ sv_pc = "start"
  /\ sv = NoSetLocals

\* version_map exec lines 74-77: the worklist primed from the components
primed(components) ==
  [i \in DOMAIN components |-> <<components[i].tree, components[i].resolved_version>>]

\* An exec that goes on to the worklist whether or not --set is given.
SetResolvedThenSets(m) ==
  IF m.kind # "ok"
  THEN sv_pc' = "failed" /\ sv' = [sv EXCEPT !.exit = m.kind, !.asked = m.asked]
  ELSE /\ sv_pc' = "while"
       /\ sv' = [sv EXCEPT !.version_map = m.val,
                           !.asked = m.asked,
                           !.out = Append(@, map_str(m.val)),
                           !.pending_tree_specs = primed(m.val)]

\* version_map exec lines 68-77, after parse and resolve gave m
SetResolved(m) ==
  IF m.kind # "ok"
  THEN sv_pc' = "failed" /\ sv' = [sv EXCEPT !.exit = m.kind, !.asked = m.asked]
  ELSE /\ sv_pc' = IF sv_env.set THEN "while" ELSE "done"
       /\ sv' = [sv EXCEPT !.version_map = m.val,
                           !.asked = m.asked,
                           !.out = Append(@, map_str(m.val)),
                           !.pending_tree_specs = IF sv_env.set THEN primed(m.val) ELSE <<>>,
                           !.exit = IF sv_env.set THEN @ ELSE "ok"]

\* version_map exec lines 65-77: parse, resolve, print, prime the worklist
SetBegin ==
  /\ sv_pc = "start"
  /\ \E m \in { map_resolve(sv_ws, SetRemoteRefs, map_parse(sv_env.specs)) } : SetResolved(m)
  /\ UNCHANGED <<sv_env, sv_ws, notSet>>

\* version_map exec lines 81-83: the test of the while loop, the copy and the clear
SetLoopTest ==
  /\ sv_pc = "while"
  /\ IF sv.pending_tree_specs = <<>>
     THEN sv_pc' = "done" /\ sv' = [sv EXCEPT !.exit = "ok"]
     ELSE /\ sv_pc' = "for"
          /\ sv' = [sv EXCEPT !.current_tree_specs = sv.pending_tree_specs,
                              !.pending_tree_specs = <<>>]
  /\ UNCHANGED <<sv_env, sv_ws, notSet>>

\* Where the for loop stands once current is what is left of the copy.
AfterItem(current) == IF current = <<>> THEN "while" ELSE "for"

\* version_map exec lines 93-95, after the lookup_versions calls gave l
SetLookedUp(tree, u, l) ==
  IF l.kind # "ok"
  THEN /\ sv_pc' = "failed"
       /\ sv_ws' = l.ws
       /\ sv' = [sv EXCEPT !.processed_trees = @ \cup {tree}, !.git = u.git,
                           !.exit = l.kind]
  ELSE /\ sv_pc' = AfterItem(Tail(sv.current_tree_specs))
       /\ sv_ws' = l.ws
       /\ sv' = [sv EXCEPT !.processed_trees = @ \cup {tree}, !.git = u.git,
                           !.pending_tree_specs = @ \o l.pairs,
                           !.current_tree_specs = Tail(@)]

\* version_map exec lines 87-95, after tree.update_version(spec, fetch=...) gave u
SetUpdated(tree, u) ==
  IF u.kind # "ok"
  THEN /\ sv_pc' = "failed"
       /\ sv' = [sv EXCEPT !.processed_trees = @ \cup {tree}, !.git = u.git,
                           !.exit = u.kind]
       /\ UNCHANGED sv_ws
  ELSE \E l \in { lookup_versions(sv_ws, tree, sv_env.pins[tree]) } : SetLookedUp(tree, u, l)

\* version_map exec lines 84-95: one iteration of the for loop, for (tree, spec)
SetItem(tree, spec) ==
  IF tree \in sv.processed_trees
  THEN /\ sv_pc' = AfterItem(Tail(sv.current_tree_specs))
       /\ sv' = [sv EXCEPT !.current_tree_specs = Tail(@)]
       /\ UNCHANGED sv_ws
  ELSE \E u \in { call_update_version(sv.git, tree, spec, {"fetch"}, sv_env.git_fails) } :
          SetUpdated(tree, u)

\* version_map exec lines 84-95: the next iteration of the for loop
SetIterate ==
  /\ sv_pc = "for"
  /\ SetItem(sv.current_tree_specs[1][1], sv.current_tree_specs[1][2])
  /\ UNCHANGED <<sv_env, notSet>>

-----------------------------------------------------------------------------
(* commands/focus.py: one run of the focus command.  Its worklist loop     *)
(* (lines 77-93) is the loop of version_map exec (lines 79-95) line by      *)
(* line, the same update_version call included.                             *)

ORIGIN_HEAD == <<"o","r","i","g","i","n","/","H","E","A","D">>

\* focus.py parse_spec: (alias, ref), split at the first "="
parse_spec(spec_) ==
  Bind1(spec_, LAMBDA spec :
    IF IndexOf(spec, EQUALS) = 0 THEN <<spec, ORIGIN_HEAD>>
    ELSE <<SubSeq(spec, 1, IndexOf(spec, EQUALS) - 1),
           SubSeq(spec, IndexOf(spec, EQUALS) + 1, Len(spec))>>)

\* A worklist seeded with the pinned versions of the submodules of the tree
\* of the current directory.
focus_prime_deps(w_, specs_, cwd_, pins_) ==
  Bind4(w_, specs_, cwd_, pins_, LAMBDA w, specs, cwd, pins :
    LET r == tree_from_cwd(w, cwd) IN
    IF r.kind # "ok" THEN VersionsResult(r.kind, <<>>, w)
    ELSE VersionsResult("ok", [i \in DOMAIN pins[r.tree] |->
                                 <<pins[r.tree][i].url, pins[r.tree][i].version>>], w))

\* focus exec lines 68-75: the worklist primed from the command line, or
\* from the current directory when no spec is given.  pins (what git
\* submodule status gives in each tree) is not looked at.
focus_prime(w_, specs_, cwd_, pins_) ==
  Bind4(w_, specs_, cwd_, pins_, LAMBDA w, specs, cwd, pins :
    IF specs = <<>>
    THEN Bind1(tree_from_cwd(w, cwd), LAMBDA r :
           IF r.kind # "ok" THEN VersionsResult(r.kind, <<>>, w)
           ELSE VersionsResult("ok", << <<r.tree, ORIGIN_HEAD>> >>, w))
    ELSE VersionsResult("ok",
           [i \in DOMAIN specs |->
              <<tree_from_alias(w, parse_spec(specs[i])[1]), parse_spec(specs[i])[2]>>], w))

\* "other", "repo=v1", "lib=v1 other=v2"
FOCUS_OTHER == <<"o","t","h","e","r">>

\* "repo=v2"
SPEC_REPO_V2 == <<"r","e","p","o","=","v","2">>

\* The command lines of focus: the specs given.
FocusSpecs == { <<>>, <<FOCUS_OTHER>>, <<SPEC_REPO>>, <<SPEC_LIB, SPEC_OTHER>>,
                <<SPEC_REPO, SPEC_REPO_V2>> }

\* Where focus is run: in the clone of other, in the clone of repo (which
\* has no annotation file), in the universe directory (no git repository).
FocusCwds ==
  { path_in_repo(URL_OTHER).val, path_in_repo(URL_HTTPS_EXAMPLE).val, universe_dir }

\* The workspace of SetWorkspace where the clone of other carries the
\* annotation a checkout leaves next to it.
FocusWorkspace(env_) ==
  Bind1(SetWorkspace(env_), LAMBDA w :
    WithFs(w, save_to_git_root(w.fs, tree_id(URL_OTHER), path_in_repo(URL_OTHER).val).fs))

InitFocus ==
  /\ sv_env \in { [specs |-> s, set |-> TRUE, no_fetch |-> nf, graph |-> l.graph,
                   pins |-> l.pins, git_fails |-> gf, cwd |-> c] :
                    s \in FocusSpecs, nf \in BOOLEAN, l \in SetLayouts,
                    gf \in SetGitFails, c \in FocusCwds }
  /\ sv_ws = FocusWorkspace(sv_env)
  /\ sv_pc = "start"
  /\ sv = NoSetLocals

\* focus exec after the worklist was primed (r)
FocusPrimed(r) ==
  IF r.kind # "ok"
  THEN sv_pc' = "failed" /\ sv' = [sv EXCEPT !.exit = r.kind]
  ELSE sv_pc' = "while" /\ sv' = [sv EXCEPT !.pending_tree_specs = r.pairs]

\* focus exec lines 65-75
FocusBegin ==
  /\ sv_pc = "start"
  /\ \E r \in { focus_prime(sv_ws, sv_env.specs, sv_env.cwd, sv_env.pins) } : FocusPrimed(r)
  /\ UNCHANGED <<sv_env, sv_ws, notSet>>

-----------------------------------------------------------------------------
(* repo.py: one GitTreeRef object with its provider list (_deps), the      *)
(* submodule provider, and the operations that read or reset the list.     *)

GITMODULES == <<".","g","i","t","m","o","d","u","l","e","s">>

\* The namedtuple SubmoduleInfo
SubmoduleInfo(url_, path_) ==
  Bind2(url_, path_, LAMBDA url, path : [url |-> url, path |-> path])

\* GitExecutor.parse_gitmodules: the SubmoduleInfo of each module, in the
\* order of the file; nothing without the file
parse_gitmodules(fs_, repository_) ==
  Bind2(fs_, repository_, LAMBDA fs, repository :
    IF ~IsFile(fs, PathParts(repository) \o <<GITMODULES>>) THEN <<>>
    ELSE fs[PathParts(repository) \o <<GITMODULES>>].text)

\* A provider object: a SubmoduleDepProvider keeps git_path and the
\* module infos parsed when it was built, a JsonDepProvider the directory of
\* its deps file.
Provider(type_, dir_, modules_) ==
  Bind3(type_, dir_, modules_, LAMBDA type, dir, modules :
    [type |-> type, dir |-> dir, modules |-> modules])

\* JsonDepProvider.create_if_exists, as the list of what it returns
create_if_exists(fs_, dir_) ==
  Bind2(fs_, dir_, LAMBDA fs, dir :
    IF IsFile(fs, deps_file(dir)) THEN << Provider("json", dir, <<>>) >>
    ELSE <<>>)

\* The object of a tree: its URL, its _deps (the empty list stands for
\* None: "if self._deps" takes both the same way), and the log of what its
\* submodule providers did, in order.
Instance(url_, deps_, log_) ==
  Bind3(url_, deps_, log_, LAMBDA url, deps, log : [url |-> url, deps |-> deps, log |-> log])

\* GitTreeRef._init_deps: nothing when _deps is set
init_deps(fs_, t_) ==
  Bind2(fs_, t_, LAMBDA fs, t :
    IF t.deps # <<>> THEN t
    ELSE [t EXCEPT !.deps =
            << Provider("submodule", path_in_repo(t.url).val,
                        parse_gitmodules(fs, path_in_repo(t.url).val)) >>
              \o create_if_exists(fs, path_in_repo(t.url).val)])

\* The result of an operation on a tree object.
InstResult(kind_, t_, w_, trees_) ==
  Bind4(kind_, t_, w_, trees_, LAMBDA kind, t, w, trees :
    [kind |-> kind, inst |-> t, ws |-> w, trees |-> trees])

\* DepRecord.read_from_file of a JsonDepProvider: open() fails without the file
provider_records(fs_, p_) ==
  Bind2(fs_, p_, LAMBDA fs, p :
    IF p.type = "submodule" THEN Ok(p.modules)
    ELSE IF IsFile(fs, deps_file(p.dir)) THEN Ok(fs[deps_file(p.dir)].text)
    ELSE Raise("OSError"))

\* GitTreeRef.dependencies, the loop over self._deps from provider i on.
\* SubmoduleDepProvider.trees is the loop of JsonDepProvider.trees over the
\* module infos.
RECURSIVE instance_trees_from(_, _, _, _)
instance_trees_from(w_, t_, i_, all_trees_) ==
  Bind4(w_, t_, i_, all_trees_, LAMBDA w, t, i, all_trees :
    IF i > Len(t.deps) THEN InstResult("ok", t, w, all_trees)
    ELSE Bind1(provider_records(w.fs, t.deps[i]), LAMBDA recs :
         IF recs.kind # "ok" THEN InstResult(recs.kind, t, w, all_trees)
         ELSE Bind1(provider_trees(w, recs.val), LAMBDA r :
              IF r.kind # "ok" THEN InstResult(r.kind, t, r.ws, all_trees)
              ELSE instance_trees_from(r.ws, t, i + 1, all_trees \cup Range(r.trees)))))

\* GitTreeRef.dependencies
instance_dependencies(w_, t_) ==
  Bind2(w_, t_, LAMBDA w, t : instance_trees_from(w, init_deps(w.fs, t), 1, {}))

\* GitTreeRef.dep_providers
instance_dep_providers(w_, t_) ==
  Bind2(w_, t_, LAMBDA w, t : InstResult("ok", init_deps(w.fs, t), w, {}))

\* The result of a provider's initialize(): outcome, workspace, log.
InitResult(kind_, w_, log_) ==
  Bind3(kind_, w_, log_, LAMBDA kind, w, log : [kind |-> kind, ws |-> w, log |-> log])

RECURSIVE submodule_initialize_from(_, _, _, _, _)

\* SubmoduleDepProvider.initialize after make_link(module_path) gave r
submodule_initialize_linked(git_path_, modules_, i_, log_, r_) ==
  Bind5(git_path_, modules_, i_, log_, r_, LAMBDA git_path, modules, i, log, r :
    IF r.kind # "ok" THEN InitResult(r.kind, r.ws, log)
    ELSE submodule_initialize_from(r.ws, git_path, modules, i + 1, log))

\* SubmoduleDepProvider.initialize, for module i whose tree is resolved:
\* skip_worktree, then the set-up of the symlink at module_path; os.rmdir
\* fails on a directory that is not empty; a file is left alone
submodule_initialize_link(w_, git_path_, modules_, i_, tree_, module_path_) ==
  Bind6(w_, git_path_, modules_, i_, tree_, module_path_,
    LAMBDA w, git_path, modules, i, tree, module_path :
      LET p       == PathParts(module_path)
          marked  == << <<"skip_worktree", modules[i].path>> >>
          touched == Append(marked, <<"link", modules[i].path>>)
      IN
      IF IsLink(w.fs, p)
      THEN submodule_initialize_linked(git_path, modules, i, touched,
             make_link(WithFs(w, RemoveEntry(w.fs, p)), tree, module_path))
      ELSE IF ~EntryAt(w.fs, p)
      THEN submodule_initialize_linked(git_path, modules, i, touched,
             make_link(w, tree, module_path))
      ELSE IF IsDir(w.fs, p)
      THEN IF ~DirIsEmpty(w.fs, p) THEN InitResult("OSError", w, touched)
           ELSE submodule_initialize_linked(git_path, modules, i, touched,
                  make_link(WithFs(w, RemoveEntry(w.fs, p)), tree, module_path))
      ELSE submodule_initialize_from(w, git_path, modules, i + 1, marked))

\* SubmoduleDepProvider.initialize, the loop from module i on; the log of
\* the modules before i is put in front of what follows
submodule_initialize_from(w_, git_path_, modules_, i_, log_) ==
  Bind5(w_, git_path_, modules_, i_, log_, LAMBDA w, git_path, modules, i, log :
    IF i > Len(modules) THEN InitResult("ok", w, log)
    ELSE Bind1(get_tree(w, modules[i].url, TRUE), LAMBDA r :
         IF r.kind = "UserError"
         THEN submodule_initialize_from(w, git_path, modules, i + 1, log)
         ELSE IF r.kind # "ok" THEN InitResult(r.kind, w, log)
         ELSE Bind1(submodule_initialize_link(r.ws, git_path, modules, i, r.tree,
                                              StrPathJoin(git_path, modules[i].path)),
                    LAMBDA l : InitResult(l.kind, l.ws, log \o l.log))))

\* SubmoduleDepProvider.initialize
submodule_initialize(w, git_path, modules) ==
  submodule_initialize_from(w, git_path, modules, 1, <<>>)

\* initialize() of provider p
instance_initialize(w_, p_) ==
  Bind2(w_, p_, LAMBDA w, p :
    IF p.type = "submodule" THEN submodule_initialize(w, p.dir, p.modules)
    ELSE Bind1(provider_records(w.fs, p), LAMBDA recs :
         IF recs.kind # "ok" THEN InitResult(recs.kind, w, <<>>)
         ELSE Bind1(provider_initialize(w, p.dir, recs.val), LAMBDA r :
              InitResult(r.kind, r.ws, <<>>))))

\* GitTreeRef.checkout, the loop over self.dep_providers from provider i on
RECURSIVE instance_initialize_from(_, _, _)
instance_initialize_from(w_, t_, i_) ==
  Bind3(w_, t_, i_, LAMBDA w, t, i :
    IF i > Len(t.deps) THEN InstResult("ok", t, w, {})
    ELSE Bind1(instance_initialize(w, t.deps[i]), LAMBDA r :
         IF r.kind # "ok" THEN InstResult(r.kind, [t EXCEPT !.log = @ \o r.log], r.ws, {})
         ELSE instance_initialize_from(r.ws, [t EXCEPT !.log = @ \o r.log], i + 1)))

\* GitTreeRef.checkout after the clone, if any, gave cloned
instance_checkout_cloned(t_, cloned_, was_cloned_) ==
  Bind3(t_, cloned_, was_cloned_, LAMBDA t, cloned, was_cloned :
    IF cloned.kind # "ok" THEN InstResult(cloned.kind, t, cloned.ws, {})
    ELSE instance_initialize_from(cloned.ws,
           init_deps(cloned.ws.fs, IF was_cloned THEN [t EXCEPT !.deps = <<>>] ELSE t), 1))

\* GitTreeRef.checkout on the object t: the clone call as in tree_checkout
\* (its arguments, self.clone_args among them, are evaluated first)
instance_checkout(w_, t_) ==
  Bind2(w_, t_, LAMBDA w, t :
    IF ~is_root_tree(t.url) /\ ~has_git_head(w.fs, path_in_repo(t.url).val)
    THEN instance_checkout_cloned(t,
           Bind1(clone_args(RepoTreesConfigAttributes), LAMBDA args :
             IF args.kind # "ok" THEN Outcome(args.kind, w)
             ELSE call_git_clone(w, t.url, path_in_repo(t.url).val, {"clone_args"}, {})),
           TRUE)
    ELSE instance_checkout_cloned(t, Outcome("ok", w), FALSE))

-----------------------------------------------------------------------------
(* One tree object under accesses of dependencies and dep_providers, calls *)
(* of checkout(), and changes of the content of its working tree.          *)

MaxInstanceCalls == 3

\* the path of a submodule in its tree
MODULE_PATH == <<"s","u","b">>

\* What .gitmodules of the tree declares: nothing (no file); one module; a
\* module whose URL has no scheme before it; a module of a scheme other
\* than http(s) before it.
ModuleLists ==
  { <<>>,
    << SubmoduleInfo(URL_HTTPS_EXAMPLE, MODULE_PATH) >>,
    << SubmoduleInfo(URL_NO_SCHEME, <<"b","a","d">>), SubmoduleInfo(URL_HTTPS_EXAMPLE, MODULE_PATH) >>,
    << SubmoduleInfo(URL_GIT_SCHEME, <<"b","a","d">>), SubmoduleInfo(URL_HTTPS_EXAMPLE, MODULE_PATH) >> }

\* the directory of the tree object, and the path of its submodule
OBJECT_DIR == path_in_repo(URL_OTHER).val

ModulePath == PathParts(StrPathJoin(OBJECT_DIR, MODULE_PATH))

\* What is at the submodule's path before the tool runs: nothing, an empty
\* directory (what git leaves for a submodule), a directory with a file in
\* it, a file, a symlink to the tree's directory, a symlink elsewhere.
ModuleEntries == { "absent", "empty", "full", "file", "link", "foreign" }

WithModuleEntry(fs_, e_) ==
  Bind2(fs_, e_, LAMBDA fs, e :
    IF e = "absent" THEN fs
    ELSE IF e = "empty" THEN DictSet(fs, ModulePath, DirEntry)
    ELSE IF e = "full"
    THEN DictSet(DictSet(fs, ModulePath, DirEntry), ModulePath \o << <<"f">> >>, FileEntry(<<>>))
    ELSE IF e = "file" THEN DictSet(fs, ModulePath, FileEntry(<<>>))
    ELSE IF e = "link"
    THEN DictSet(fs, ModulePath, LinkEntry(path_in_repo(URL_HTTPS_EXAMPLE).val))
    ELSE DictSet(fs, ModulePath, LinkEntry(<<"/","t","m","p","/","x">>)))

\* The manifest the tree may hold: one record.
InstanceManifest == << DepRecord(<<DepPath(1)>>, "v1", URL_HTTPS_EXAMPLE) >>

\* fs with the clone of the tree: .git/HEAD, .gitmodules when modules are
\* declared, what is at the submodule's path, the manifest if there is one.
InstanceClone(fs_, modules_, e_, manifest_) ==
  Bind4(fs_, modules_, e_, manifest_, LAMBDA fs, modules, e, manifest :
    LET head == Place(fs, StrPathJoin(StrPathJoin(OBJECT_DIR, DOT_GIT), HEAD), FileEntry(<<>>))
        mods == IF modules = <<>> THEN head
                ELSE DictSet(head, PathParts(OBJECT_DIR) \o <<GITMODULES>>, FileEntry(modules))
        dep  == IF manifest THEN DictSet(mods, deps_file(OBJECT_DIR), FileEntry(InstanceManifest))
                ELSE mods
    IN WithModuleEntry(dep, e))

NoInstance == Instance(<<>>, <<>>, <<>>)

NoInstanceCall ==
  [op |-> "none", kind |-> "none", trees |-> {}, before |-> NoInstance,
   ws_before |-> EmptyWorkspace]

\* A tree registered in the workspace, cloned or not, and its object fresh
\* from get_tree.
InitInstance ==
  /\ \E cloned \in BOOLEAN, modules \in ModuleLists, e \in ModuleEntries, manifest \in BOOLEAN :
        /\ (~cloned => (modules = <<>> /\ e = "absent" /\ ~manifest))
        /\ ti_ws = get_tree(WithFs(EmptyWorkspace,
                                   IF cloned THEN InstanceClone(BareFs, modules, e, manifest)
                                   ELSE BareFs),
                            URL_OTHER, TRUE).ws
  /\ ti = Instance(URL_OTHER, <<>>, <<>>)
  /\ ti_calls = 0
  /\ ti_last = NoInstanceCall

\* The object, the workspace and the call record after operation op gave r.
InstanceDone(op, r) ==
  /\ ti' = r.inst
  /\ ti_ws' = r.ws
  /\ ti_last' = [op |-> op, kind |-> r.kind, trees |-> r.trees, before |-> ti,
                 ws_before |-> ti_ws]
  /\ ti_calls' = ti_calls + 1
  /\ UNCHANGED notInst

\* One access tree.dep_providers
DepProvidersAccess ==
  /\ ti_calls < MaxInstanceCalls
  /\ \E r \in { instance_dep_providers(ti_ws, ti) } : InstanceDone("dep_providers", r)

\* One access tree.dependencies
DependenciesAccess ==
  /\ ti_calls < MaxInstanceCalls
  /\ \E r \in { instance_dependencies(ti_ws, ti) } : InstanceDone("dependencies", r)

\* One call tree.checkout()
InstanceCheckout ==
  /\ ti_calls < MaxInstanceCalls
  /\ \E r \in { instance_checkout(ti_ws, ti) } : InstanceDone("checkout", r)

\* The content of the working tree changes under the object (a git
\* checkout of another version, an edit): the manifest appears or goes.
WorkingTreeChanges ==
  /\ ti_calls < MaxInstanceCalls
  /\ has_git_head(ti_ws.fs, OBJECT_DIR)
  /\ \E fs \in { IF IsFile(ti_ws.fs, deps_file(OBJECT_DIR))
                 THEN RemoveEntry(ti_ws.fs, deps_file(OBJECT_DIR))
                 ELSE DictSet(ti_ws.fs, deps_file(OBJECT_DIR), FileEntry(InstanceManifest)) } :
        InstanceDone("change", InstResult("ok", ti, WithFs(ti_ws, fs), {}))

-----------------------------------------------------------------------------
(* The tree registry under arbitrary calls of the operations that reach    *)
(* it: get_tree, get_root_tree, checkout of a tree, make_link, add_alias.  *)

MaxRegistryCalls == 3

\* fs with the workspace directory being a git repository itself
RootRepo(fs_) ==
  Bind1(fs_, LAMBDA fs :
    Place(fs, StrPathJoin(StrPathJoin(REPO_PATH, DOT_GIT), HEAD), FileEntry(<<>>)))

\* The manifest in the workspace directory names one remote.
RootDeclares == { <<ROOT_URL, URL_OTHER>> }

\* The workspaces "mmr init" leaves: bare or on top of a git repository,
\* with or without a manifest in the workspace directory.
RegistryWorkspaces ==
  { WithFs(EmptyWorkspace, fs) :
      fs \in { BareFs, RootRepo(BareFs), WithManifest(BareFs, RootDeclares, ROOT_URL),
               WithManifest(RootRepo(BareFs), RootDeclares, ROOT_URL) } }

RegistryUrls == { URL_HTTPS_EXAMPLE, URL_SSH_EXAMPLE, URL_NO_SCHEME, URL_GIT_SCHEME }

RegistryCheckouts == { ROOT_URL, URL_HTTPS_EXAMPLE }

RegistryTargets == { TARGET_ALL, TARGET_TOP }

RegistryAliases == { ALIAS_FOO, <<"r","e","p","o">> }

InitRegistry ==
  /\ ws \in RegistryWorkspaces
  /\ ws_calls = 0
  /\ ws_last = NoWsCall
  /\ ws_made = {}

\* The workspace and the call record after a call op that gave outcome kind,
\* tree (None when it returns no tree) and workspace w.
RegistryDone(op, url, create, kind, tree, w) ==
  /\ ws' = w
  /\ ws_last' = [op |-> op, url |-> url, target |-> <<>>, kind |-> kind, repeat |-> FALSE,
                 made_before |-> ws_made, before |-> ws, tree |-> tree, create |-> create]
  /\ ws_calls' = ws_calls + 1
  /\ UNCHANGED <<ws_made, notWs>>

\* One call repo.get_tree(url, create=create)
GetTreeCall(url, create) ==
  /\ ws_calls < MaxRegistryCalls
  /\ \E r \in { get_tree(ws, url, create) } :
        RegistryDone("get_tree", url, create, r.kind, r.tree, r.ws)

\* One call repo.get_root_tree()
GetRootTreeCall ==
  /\ ws_calls < MaxRegistryCalls
  /\ \E r \in { get_root_tree(ws) } :
        RegistryDone("get_root_tree", ROOT_URL, TRUE, r.kind, r.tree, r.ws)

\* One call tree.checkout() on a tree of the registry
TreeCheckoutCall(url) ==
  /\ ws_calls < MaxRegistryCalls
  /\ DictGet(ws.trees, tree_id(url)) # None
  /\ \E r \in { tree_checkout(ws, url, {}) } :
        RegistryDone("checkout", url, FALSE, r.kind, url, r.ws)

\* One call repo.config.trees.add_alias(alias, tree_id)
RegistryAddAlias(alias, tid) ==
  /\ ws_calls < MaxRegistryCalls
  /\ \E r \in { add_alias(ws.aliases, alias, tid) } :
        RegistryDone("add_alias", <<>>, FALSE, "ok", None, [ws EXCEPT !.aliases = r.aliases])

-----------------------------------------------------------------------------
(* The parsers of version_map.py applied to given texts.                   *)

MaxToken == 4

MaxText == 3

\* The strings of at most n characters of the set chars.
Strings(chars, n) == UNION { [1..k -> chars] : k \in 0..n }

\* Tokens of a map: a name character with the two separators of a component.
Tokens == Strings({ "a", EQUALS, AT }, MaxToken)

\* Texts of a map: a name character with space, tab, carriage return, newline.
Texts == Strings({ "a", " ", "\t", "\r", "\n" }, MaxText)

\* "foo@HEAD=abcdefg"
TOKEN_FULL == <<"f","o","o","@","H","E","A","D","=","a","b","c","d","e","f","g">>

\* "git/https://github.com/foo=abcdefg"
TOKEN_ID ==
  <<"g","i","t","/","h","t","t","p","s",":","/","/","g","i","t","h","u","b",".","c","o","m",
    "/","f","o","o","=","a","b","c","d","e","f","g">>

\* "a|a", and "foo \r\n bar gah" of the docstring of VersionMap.parse
TEXT_BAR == <<"a","|","a">>

TEXT_DOC == <<"f","o","o"," ","\r","\n"," ","b","a","r"," ","g","a","h">>

\* The arguments given: one string, or two.
ParseInputs ==
  { <<t>> : t \in Tokens \cup Texts \cup { TOKEN_FULL, TOKEN_ID, TEXT_BAR, TEXT_DOC } }
    \cup { <<t, u>> : t \in { <<"a"," ","a">>, <<" ","a">>, <<>> }, u \in { <<"a">>, <<"a"," ">> } }

NoParseCall == [op |-> "none", arg |-> <<>>, val |-> <<>>]

InitParse ==
  /\ pv_specs \in ParseInputs
  /\ pv_last = NoParseCall

\* One call VersionComponent.parse(spec), spec one of the strings given
ComponentParse ==
  /\ \E i \in DOMAIN pv_specs :
        pv_last' = [op |-> "component", arg |-> pv_specs[i], val |-> component_parse(pv_specs[i])]
  /\ UNCHANGED <<pv_specs, notParse>>

\* One call VersionMap.parse(*specs)
MapParse ==
  /\ pv_last' = [op |-> "map", arg |-> pv_specs, val |-> map_parse(pv_specs)]
  /\ UNCHANGED <<pv_specs, notParse>>

-----------------------------------------------------------------------------
(* Specifications: each part runs with the other parts at rest.            *)

RestOrigin ==
  /\ o_pc = "rest"
  /\ o_a = NotATree
  /\ o_b = NotATree
  /\ o_up = Raise("none")
  /\ o_alias = Raise("none")
  /\ o_cmp = [eq |-> FALSE, hash_a |-> <<>>, hash_b |-> <<>>, id_a |-> <<>>, id_b |-> <<>>]

RestAlias == InitAliasTable

RestWs ==
  /\ ws = EmptyWorkspace
  /\ ws_calls = 0
  /\ ws_last = NoWsCall
  /\ ws_made = {}

RestMf ==
  /\ mf_deps = <<>>
  /\ mf_parent = ROOT_URL
  /\ mf_ws = EmptyWorkspace
  /\ mf_calls = 0
  /\ mf_last = NoProviderCall

RestWalk ==
  /\ wk_env = [args |-> <<>>, graph |-> {}, missing |-> {}, stale |-> {}, git_fails |-> {}]
  /\ wk_pc = "rest"
  /\ wk_ws = EmptyWorkspace
  /\ wk = NoLocals
  /\ wk_hist = NoHistory

RestSet ==
  /\ sv_env = [specs |-> <<>>, set |-> FALSE, no_fetch |-> FALSE, graph |-> {},
               pins |-> [t \in SetTrees |-> <<>>], git_fails |-> {}]
  /\ sv_pc = "rest"
  /\ sv_ws = EmptyWorkspace
  /\ sv = NoSetLocals

RestInst ==
  /\ ti_ws = EmptyWorkspace
  /\ ti = NoInstance
  /\ ti_calls = 0
  /\ ti_last = NoInstanceCall

RestParse ==
  /\ pv_specs = <<>>
  /\ pv_last = NoParseCall

NextOrigin == OriginNormalize \/ TreeCompare

InitSpecOrigin == InitOrigin /\ RestAlias /\ RestWs /\ RestMf /\ RestWalk /\ RestSet /\ RestInst /\ RestParse

SpecOrigin == InitSpecOrigin /\ [][NextOrigin]_vars

NextAlias == \E alias \in AliasRequests, tid \in AliasTreeIds : AddAliasCall(alias, tid)

InitSpecAlias == InitAliasTable /\ RestOrigin /\ RestWs /\ RestMf /\ RestWalk /\ RestSet /\ RestInst /\ RestParse

SpecAlias == InitSpecAlias /\ [][NextAlias]_vars

NextLink == \E url \in LinkTrees, target \in LinkTargets : MakeLinkCall(url, target)

InitSpecLink == InitLink /\ RestOrigin /\ RestAlias /\ RestMf /\ RestWalk /\ RestSet /\ RestInst /\ RestParse

SpecLink == InitSpecLink /\ [][NextLink]_vars

NextRegistry ==
  \/ \E url \in RegistryUrls, create \in BOOLEAN : GetTreeCall(url, create)
  \/ GetRootTreeCall
  \/ \E url \in RegistryCheckouts : TreeCheckoutCall(url)
  \/ \E url \in RegistryCheckouts, target \in RegistryTargets : MakeLinkCall(url, target)
  \/ \E alias \in RegistryAliases, tid \in { TREE_A, TREE_B } : RegistryAddAlias(alias, tid)

InitSpecRegistry == InitRegistry /\ RestOrigin /\ RestAlias /\ RestMf /\ RestWalk /\ RestSet /\ RestInst /\ RestParse

SpecRegistry == InitSpecRegistry /\ [][NextRegistry]_vars

NextManifest == ProviderTrees \/ ProviderInitialize

InitSpecManifest == InitManifest /\ RestOrigin /\ RestAlias /\ RestWs /\ RestWalk /\ RestSet /\ RestInst /\ RestParse

SpecManifest == InitSpecManifest /\ [][NextManifest]_vars

NextWalk ==
  \/ ExecBegin
  \/ ExecSeed
  \/ ExecLoopTest
  \/ \E tree_dep \in AllTrees : ExecSkip(tree_dep)
  \/ \E tree_dep \in AllTrees : ExecVisit(tree_dep)
  \/ ExecReport

InitSpecWalk == InitWalk /\ RestOrigin /\ RestAlias /\ RestWs /\ RestMf /\ RestSet /\ RestInst /\ RestParse

\* exec runs on: no step of it waits for anything.
SpecWalk == InitSpecWalk /\ [][NextWalk]_vars /\ WF_vars(NextWalk)

NextSet == SetBegin \/ SetLoopTest \/ SetIterate

InitSpecSet == InitSet /\ RestOrigin /\ RestAlias /\ RestWs /\ RestMf /\ RestWalk /\ RestInst /\ RestParse

SpecSet == InitSpecSet /\ [][NextSet]_vars

NextFocus == FocusBegin \/ SetLoopTest \/ SetIterate

InitSpecFocus == InitFocus /\ RestOrigin /\ RestAlias /\ RestWs /\ RestMf /\ RestWalk /\ RestInst /\ RestParse

\* exec is one sequential run: a step that can be taken is taken
SpecFocus == InitSpecFocus /\ [][NextFocus]_vars /\ WF_vars(NextFocus)

NextInstance == DepProvidersAccess \/ DependenciesAccess \/ InstanceCheckout \/ WorkingTreeChanges

InitSpecInstance ==
  InitInstance /\ RestOrigin /\ RestAlias /\ RestWs /\ RestMf /\ RestWalk /\ RestSet
    /\ RestParse

SpecInstance == InitSpecInstance /\ [][NextInstance]_vars

NextParse == ComponentParse \/ MapParse

InitSpecParse ==
  InitParse /\ RestOrigin /\ RestAlias /\ RestWs /\ RestMf /\ RestWalk /\ RestSet /\ RestInst

SpecParse == InitSpecParse /\ [][NextParse]_vars

-----------------------------------------------------------------------------
(* Claims                                                                  *)

\* C9: two trees are equal, with equal hashes, exactly when their raw URL
\* strings are identical; tree_id is "git/" followed by the raw URL; the SSH
\* and the HTTPS form of one remote (same universe_path) give trees that are
\* not equal and have different tree ids.
C9_TreeIdentityIsUrlExact ==
  (o_pc = "done" /\ o_b.type = "GitTreeRef") =>
     /\ o_cmp.eq <=> (o_a.url = o_b.url)
     /\ (o_a.url = o_b.url) => (o_cmp.hash_a = o_cmp.hash_b)
     /\ o_cmp.id_a = <<"g","i","t","/">> \o o_a.url
     /\ o_cmp.id_b = <<"g","i","t","/">> \o o_b.url
     /\ (o_cmp.id_a = o_cmp.id_b) <=> (o_a.url = o_b.url)
     /\ (o_a.url = URL_HTTPS_EXAMPLE /\ o_b.url = URL_SSH_EXAMPLE) =>
          (~o_cmp.eq /\ o_cmp.id_a # o_cmp.id_b)

C9_Witness ==
  /\ o_pc = "done"
  /\ o_a.url = URL_HTTPS_EXAMPLE
  /\ o_b.url = URL_SSH_EXAMPLE
  /\ o_up = Ok(UP_EXAMPLE)
  /\ universe_path(o_b.url) = o_up
  /\ ~o_cmp.eq

\* C10: universe_path of "https://host/org/repo.git" and of
\* "user@host:org/repo.git" is "host/org/repo.git"; default_alias is the text
\* after the last separator of universe_path less exactly one trailing ".git";
\* a spec that neither starts with http(s):// nor contains ":" raises UserError.
C10_OriginNormalization ==
  (o_pc \in {"normalized", "done"}) =>
     /\ (o_a.url \in {URL_HTTPS_EXAMPLE, URL_SSH_EXAMPLE}) => o_up = Ok(UP_EXAMPLE)
     /\ (o_up.kind = "ok") =>
          LET last == SubSeq(o_up.val, LastIndexOf(o_up.val, "/") + 1, Len(o_up.val)) IN
          /\ o_alias.kind = "ok"
          /\ IF EndsWith(last, DOT_GIT)
             THEN o_alias.val \o DOT_GIT = last
             ELSE o_alias.val = last
     /\ (~StartsWith(o_a.url, HTTPS) /\ ~StartsWith(o_a.url, HTTP)
           /\ \A i \in 1..Len(o_a.url) : o_a.url[i] # ":") =>
          (o_up.kind = "UserError" /\ o_alias.kind = "UserError")

C10_Witness ==
  /\ o_pc = "normalized"
  /\ o_a.url = URL_SSH_EXAMPLE
  /\ o_up = Ok(UP_EXAMPLE)
  /\ o_alias = Ok(<<"r","e","p","o">>)

\* C7: add_alias(alias, tree_id) returns an alias that is bound to tree_id
\* afterwards and changes no binding the table had; adding "foo" for tree A
\* and then "foo" for tree B leaves "foo" -> A and binds "foo-0" -> B; a
\* repeated call returns the alias the first such call returned and leaves
\* the table as it was.
C7_AddAliasUniquesAndIsIdempotent ==
  (al_calls > 0) =>
     /\ DictGet(al_aliases, al_last.returned) = al_last.tree_id
     /\ \A a \in DOMAIN al_last.before : al_aliases[a] = al_last.before[a]
     /\ al_returned[<<al_last.alias, al_last.tree_id>>] = al_last.returned
     /\ al_last.repeat => al_aliases = al_last.before
     /\ (/\ al_last.before = DictSet(EmptyDict, ALIAS_FOO, TREE_A)
         /\ al_last.alias = ALIAS_FOO
         /\ al_last.tree_id = TREE_B)
        => (/\ al_last.returned = ALIAS_FOO_0
            /\ al_aliases = DictSet(DictSet(EmptyDict, ALIAS_FOO, TREE_A), ALIAS_FOO_0, TREE_B))

C7_Witness ==
  /\ al_aliases = DictSet(DictSet(EmptyDict, ALIAS_FOO, TREE_A), ALIAS_FOO_0, TREE_B)
  /\ al_last.alias = ALIAS_FOO
  /\ al_last.tree_id = TREE_B
  /\ al_last.repeat
  /\ al_last.returned = ALIAS_FOO_0
  /\ al_calls = 3

\* The entry at the target of the last make_link call, before and after it.
TargetBefore == DictGet(ws_last.before.fs, PathParts(ws_last.target))

TargetAfter == DictGet(ws.fs, PathParts(ws_last.target))

\* C5: a make_link call for a non-root tree at a target where an earlier call
\* for the same tree created the link succeeds and leaves the link as it was.
C5_SecondMakeLinkIsNoOp ==
  (ws_last.op = "make_link" /\ ws_last.repeat /\ ~is_root_tree(ws_last.url)) =>
     /\ ws_last.kind = "ok"
     /\ TargetAfter = TargetBefore

\* The target of the last make_link call held, before the call, something
\* that is not a symlink, or a symlink not made for the tree of the call: one
\* make_link created for another tree, or one that was there from the start
\* and points somewhere else than the tree's directory.
TargetIsForeign ==
  /\ ws_last.op = "make_link"
  /\ TargetBefore # None
  /\ \/ TargetBefore.kind # "link"
     \/ \E made \in ws_last.made_before :
           made[2] = ws_last.target /\ made[1] # ws_last.url
     \/ /\ TargetBefore.kind = "link"
        /\ \A made \in ws_last.made_before : made[2] # ws_last.target
        /\ path_in_repo(ws_last.url) # Ok(TargetBefore.text)

\* C6 as stated, for any tree: make_link at a foreign target raises UserError
\* and leaves the entry at the target unchanged.
C6_AnyTreeRefusesForeignTarget ==
  TargetIsForeign => (ws_last.kind = "UserError" /\ TargetAfter = TargetBefore)

\* C6: make_link for a tree that is not the root tree, at a target that holds
\* a symlink made for a different tree or an existing file or directory,
\* raises UserError and leaves the entry at the target unchanged.
C6_NonRootTreeRefusesForeignTarget ==
  (TargetIsForeign /\ ~is_root_tree(ws_last.url)) =>
     (ws_last.kind = "UserError" /\ TargetAfter = TargetBefore)

C6_Witness ==
  /\ ws_last.op = "make_link"
  /\ ws_last.url = URL_OTHER
  /\ <<URL_HTTPS_EXAMPLE, ws_last.target>> \in ws_last.made_before
  /\ TargetBefore.kind = "link"
  /\ ws_last.kind = "UserError"
  /\ TargetAfter = TargetBefore

\* The entries of the manifest whose URL has a scheme the tool supports:
\* http(s)://, or the SSH form [user@]host:path.
SupportedEntry(i) == mf_deps[i].url \notin {URL_NO_SCHEME, URL_GIT_SCHEME}

\* The URLs of the supported entries of the first n records, in file order.
RECURSIVE SupportedUrls(_)
SupportedUrls(n_) ==
  Bind1(n_, LAMBDA n :
    IF n = 0 THEN <<>>
    ELSE IF SupportedEntry(n) THEN Append(SupportedUrls(n - 1), mf_deps[n].url)
    ELSE SupportedUrls(n - 1))

\* The link of record i is in place.
EntryLinked(i) ==
  IsLink(mf_ws.fs, PathParts(StrPathJoin(parent_dir(mf_parent), mf_deps[i].paths[1])))

\* C8: whatever entries of the manifest have an unsupported scheme, and
\* wherever they stand, trees yields the tree of every other entry and
\* initialize() creates the link of every other entry.
C8_BadEntrySkippedSiblingsMaterialise ==
  /\ (mf_last.op = "trees") =>
        (mf_last.kind = "ok" /\ mf_last.trees = SupportedUrls(Len(mf_deps)))
  /\ (mf_last.op = "initialize") =>
        (mf_last.kind = "ok" /\ \A i \in 1..Len(mf_deps) : SupportedEntry(i) => EntryLinked(i))

\* The path record i declares, in the directory of the provider.
LocalPath(i) == PathParts(StrPathJoin(parent_dir(mf_parent), mf_deps[i].paths[1]))

\* Something that is not a symlink is at the path record i declares.
Blocked(fs, i) == EntryAt(fs, LocalPath(i)) /\ ~IsLink(fs, LocalPath(i))

\* The same for manifests whose only unsupported entries are those without
\* any scheme, which universe_path reports as UserError, when nothing but
\* symlinks is at the declared paths.
C8_OnlySchemelessEntries ==
  (/\ \A i \in 1..Len(mf_deps) : mf_deps[i].url # URL_GIT_SCHEME
   /\ \A i \in 1..Len(mf_deps) : ~Blocked(mf_ws.fs, i))
     => C8_BadEntrySkippedSiblingsMaterialise

\* initialize() leaves what is at a blocked path as it is.
BlockedPathIsKept ==
  [][\A i \in 1..Len(mf_deps) :
        Blocked(mf_ws.fs, i) => (/\ EntryAt(mf_ws'.fs, LocalPath(i))
                                 /\ mf_ws'.fs[LocalPath(i)] = mf_ws.fs[LocalPath(i)])]_vars

\* A call of initialize() made while something that is not a symlink is at
\* a path the manifest declares raises UserError and leaves it in place.
InitializeFailsLoudly ==
  (mf_last'.op = "initialize" /\ mf_calls' # mf_calls) =>
     \A i \in 1..Len(mf_deps) :
        Blocked(mf_ws.fs, i) => (/\ mf_last'.kind = "UserError"
                                 /\ EntryAt(mf_ws'.fs, LocalPath(i))
                                 /\ mf_ws'.fs[LocalPath(i)] = mf_ws.fs[LocalPath(i)])

\* C17: a call of initialize() made while something that is not a symlink
\* is at a path the manifest declares raises a user-reportable error, and
\* leaves what is there in place.
C17_ExistingTargetFailsLoudlyAndIsKept == [][InitializeFailsLoudly]_vars

\* The same for manifests all of whose entries have a supported scheme.
C17_AllEntriesSupported ==
  [][(\A i \in 1..Len(mf_deps) : SupportedEntry(i)) => InitializeFailsLoudly]_vars

\* The same for manifests without an entry of a scheme other than http(s).
C17_NoOtherScheme ==
  [][(\A i \in 1..Len(mf_deps) : mf_deps[i].url # URL_GIT_SCHEME) => InitializeFailsLoudly]_vars

\* The components of the command line, as parsed.
Parsed == map_parse(sv_env.specs)

\* The tree a parsed component names, by id or by alias, or None.
NamedTree(c_) ==
  Bind1(c_, LAMBDA c :
    IF tree_from_id(sv_ws, c.tree) # None THEN tree_from_id(sv_ws, c.tree)
    ELSE tree_from_alias(sv_ws, c.tree))

\* The ref a component without a resolved version is resolved from.
RefOf(c) == IF c.symbolic_version # None THEN c.symbolic_version ELSE HEAD

\* The component has no resolved version and names a known tree: its
\* remote has to be asked.
NeedsRemote(c) == c.resolved_version = None /\ NamedTree(c) # None

\* The component cannot be resolved: its tree is unknown, or its ref is not
\* listed by the remote.
CannotResolve(c) ==
  \/ NamedTree(c) = None
  \/ NeedsRemote(c) /\ RefOf(c) \notin DOMAIN SetRemoteRefs[NamedTree(c)]

\* The remotes of the first n components that have to be asked, in order.
RECURSIVE RemotesOf(_, _)
RemotesOf(cs_, n_) ==
  Bind2(cs_, n_, LAMBDA cs, n :
    IF n = 0 THEN <<>>
    ELSE RemotesOf(cs, n - 1) \o (IF NeedsRemote(cs[n]) THEN <<NamedTree(cs[n])>> ELSE <<>>))

\* The first component that cannot be resolved, or the last one.
FirstFailure(cs) ==
  IF \E i \in DOMAIN cs : CannotResolve(cs[i])
  THEN CHOOSE i \in DOMAIN cs :
         CannotResolve(cs[i]) /\ \A j \in 1..(i - 1) : ~CannotResolve(cs[j])
  ELSE Len(cs)

\* Component i of the resolved map is what resolve makes of c.
ResolvedFrom(r, c) ==
  /\ r.is_tree /\ r.tree = NamedTree(c)
  /\ IF c.resolved_version # None
     THEN r.resolved_version = c.resolved_version /\ r.symbolic_version = c.symbolic_version
     ELSE /\ r.symbolic_version = RefOf(c)
          /\ r.resolved_version = SetRemoteRefs[NamedTree(c)][RefOf(c)]

\* The resolve of the command line is as VersionComponent.resolve and
\* VersionMap.resolve say, for the parsed components cs.
ResolvedAsSaid(cs) ==
  /\ sv.asked = RemotesOf(cs, FirstFailure(cs))
  /\ IF \E i \in DOMAIN cs : CannotResolve(cs[i])
     THEN /\ sv_pc = "failed" /\ sv.out = <<>> /\ sv.version_map = <<>>
          /\ NamedTree(cs[FirstFailure(cs)]) # None => sv.exit = "UserError"
     ELSE /\ Len(sv.version_map) = Len(cs)
          /\ \A i \in DOMAIN cs : ResolvedFrom(sv.version_map[i], cs[i])

\* C18: a component with a resolved version keeps it and its remote is not
\* asked; one without is resolved to the commit its remote lists for its
\* symbolic version, or for HEAD; a ref that is not listed is a UserError;
\* the map fails to resolve when one of its components does.
C18_ResolveFillsInFromRemoteRefs ==
  sv_pc # "start" => \E cs \in { Parsed } : ResolvedAsSaid(cs)

\* A map resolved with one version kept and one looked up at HEAD.
C18_Witness ==
  /\ sv_pc # "start" /\ sv_env.specs = <<SPEC_REPO, SPEC_HEAD>>
  /\ sv.asked = <<URL_OTHER>>
  /\ Len(sv.version_map) = 2
  /\ sv.version_map[1].resolved_version = V1
  /\ sv.version_map[2].resolved_version = COMMIT_HEAD

\* A ref the remote does not list ended the command with a UserError.
C18_UnlistedRefFails ==
  sv_env.specs = <<SPEC_NO_REF>> /\ sv_pc = "failed" /\ sv.exit = "UserError"

\* The printed map, parsed and resolved again as the specs of a later call.
Reread == map_resolve(sv_ws, SetRemoteRefs, map_parse(<<sv.out[1]>>))

\* r has the trees of the resolved map m, at the same resolved versions.
SameTreesAndVersions(r, m) ==
  /\ r.kind = "ok"
  /\ Len(r.val) = Len(m)
  /\ \A i \in DOMAIN m :
        r.val[i].tree = m[i].tree /\ r.val[i].resolved_version = m[i].resolved_version

\* C19: the line version_map prints for a map of one tree or more, given
\* as the specs of a later call, parses and resolves to the same trees at
\* the same resolved versions.
C19_PrintedMapReadsBack ==
  (sv.out # <<>> /\ sv.version_map # <<>>) => \E r \in { Reread } : SameTreesAndVersions(r, sv.version_map)

\* The same for command lines that name no tree of an SSH-form URL without
\* a symbolic version.
C19_ReadsBackButSshWithoutSymbolic ==
  (sv.out # <<>> /\ sv.version_map # <<>> /\ sv_env.specs # <<SPEC_LIB>>)
     => \E r \in { Reread } : SameTreesAndVersions(r, sv.version_map)

\* C20: without --set the command resolves and prints and does no more:
\* no tree's version is updated, no git command is run in a tree, no
\* dependency versions are looked up (nothing is put on the worklist or
\* marked as processed), and the workspace is as it was.
C20_WithoutSetOnlyResolvesAndPrints ==
  ~sv_env.set =>
     /\ sv_pc \in {"start", "done", "failed"}
     /\ sv.git = NoSetLocals.git
     /\ sv.pending_tree_specs = <<>> /\ sv.current_tree_specs = <<>>
     /\ sv.processed_trees = {}
     /\ sv_ws = SetWorkspace(sv_env)
     /\ sv_pc = "done" => (sv.exit = "ok" /\ sv.out = <<map_str(sv.version_map)>>)

\* A map of two trees, one of which pins a dependency, was resolved and
\* printed without --set.
C20_Witness ==
  /\ ~sv_env.set /\ sv_pc = "done"
  /\ sv_env.specs = <<SPEC_OTHER, SPEC_REPO>>
  /\ sv_env.pins[URL_OTHER] # <<>>
  /\ Len(sv.version_map) = 2 /\ Len(sv.out) = 1

\* The positions of the log of git commands where cmd was run in tree t.
LogAt(cmd, t) == { i \in DOMAIN sv.git.log : sv.git.log[i] = <<cmd, t>> }

\* C21: a tree the set walk has taken up, in whose directory git works, had
\* its version checked out, after a fetch when --no-fetch is not given and
\* with no fetch before it when --no-fetch is given.
C21_UpdateFetchesThenChecksOut ==
  \A t \in sv.processed_trees \ sv_env.git_fails :
     /\ LogAt("checkout", t) # {}
     /\ \A i \in LogAt("checkout", t) :
           IF sv_env.no_fetch
           THEN \A j \in LogAt("fetch", t) : j > i
           ELSE \E j \in LogAt("fetch", t) : j < i

\* The worklist of focus is primed and no pass over it has begun.
FocusJustPrimed == sv_pc = "while" /\ sv.processed_trees = {}

\* The registered tree whose clone is the current directory, if any.
CwdTrees == { t \in SetTrees : path_in_repo(t).val = sv_env.cwd }

\* The immediate dependencies of tree t with their pinned versions: the
\* submodules with the version git submodule status gives, and the records
\* of its manifest with their version.
ImmediatePins(t) ==
  { <<p.url, p.version>> : p \in Range(sv_env.pins[t]) }
    \cup { <<r.url, r.version>> : r \in Range(ManifestOf(sv_env.graph, t)) }

DeclaredDeps(d_) ==
  Bind1(d_, LAMBDA d :
    IF d \in wk_env.missing THEN {} ELSE Range(DeclaredSeq(wk_env.graph, d)))

\* The trees reachable from those of S through declared dependencies.
RECURSIVE ReachableFrom(_)
ReachableFrom(S_) ==
  Bind1(S_, LAMBDA S :
    IF UNION { DeclaredDeps(d) : d \in S } \subseteq S THEN S
    ELSE ReachableFrom(S \cup UNION { DeclaredDeps(d) : d \in S }))

\* The loop was left because all_depends equals recursive_processed.
WalkCompleted == wk_pc \in {"report", "done"}

\* The walk is over: the loop was left, that way or by an exception raised
\* in it.
WalkOver == WalkCompleted \/ (wk_pc = "failed" /\ wk.recursive_processed # {})

\* checkout() was invoked once for every tree reachable from the start tree
\* and for no other, and processed and all_depends are the reachable closure.
ClosureCheckedOutOnce ==
  /\ wk.recursive_processed = ReachableFrom({wk.tree})
  /\ wk.all_depends = ReachableFrom({wk.tree})
  /\ \A t \in DOMAIN wk_hist.count :
        wk_hist.count[t] = IF t \in ReachableFrom({wk.tree}) THEN 1 ELSE 0

\* C1: checkout() is never invoked twice for a tree, and when the walk is
\* over it was invoked exactly once for the start tree and for every tree
\* reachable from it, and the processed set is the reachable closure, in
\* whatever order the snapshot of all_depends was iterated.
C1_EachReachableTreeOnce ==
  /\ \A t \in DOMAIN wk_hist.count : wk_hist.count[t] <= 1
  /\ WalkOver => ClosureCheckedOutOnce

\* What holds of the runs that leave the loop without an exception.
CompletedWalkCoversClosure ==
  /\ \A t \in DOMAIN wk_hist.count : wk_hist.count[t] <= 1
  /\ WalkCompleted => ClosureCheckedOutOnce

\* C3: when checkout of a dependency raises UserError the tree is in the
\* errored set, exec does not end with an exception, the dependencies the
\* failed tree declares are in all_depends, and when the walk is over with
\* errored trees every reachable tree has had its checkout.
C3_UserErrorDoesNotAbortTheWalk ==
  /\ (wk_hist.last.kind = "UserError") =>
        /\ wk_pc # "failed"
        /\ wk_hist.last.tree \in wk.recursive_errored
        /\ wk_hist.last.deps = DeclaredDeps(wk_hist.last.tree)
        /\ wk_hist.last.deps \subseteq wk.all_depends
  /\ (WalkOver /\ wk.recursive_errored # {}) =>
        \A t \in ReachableFrom({wk.tree}) : wk_hist.count[t] = 1

\* What holds when the UserError is raised after the tree's providers were
\* built (by a link that cannot be made) and the loop is left without an
\* exception.
LinkErrorDoesNotAbortTheWalk ==
  /\ (wk_hist.last.kind = "UserError" /\ wk_hist.last.tree \notin wk_env.git_fails) =>
        /\ wk_pc # "failed"
        /\ wk_hist.last.tree \in wk.recursive_errored
        /\ wk_hist.last.deps = DeclaredDeps(wk_hist.last.tree)
        /\ wk_hist.last.deps \subseteq wk.all_depends
  /\ (WalkCompleted /\ wk.recursive_errored # {}) =>
        \A t \in ReachableFrom({wk.tree}) : wk_hist.count[t] = 1

\* C4: every run of exec leaves the loop: it reaches the report or ends with
\* an exception.
C4_WalkTerminates == <>(wk_pc \in {"done", "failed"})

\* a run over a graph with a cycle through the start tree has reached the report
C4_Witness ==
  /\ wk_pc = "done"
  /\ wk_env.args = <<URL_OTHER>>
  /\ {<<URL_HTTPS_EXAMPLE, URL_OTHER>>, <<URL_OTHER, URL_HTTPS_EXAMPLE>>} \subseteq wk_env.graph
  /\ wk.recursive_processed = {URL_HTTPS_EXAMPLE, URL_OTHER}

\* The command has ended, normally or by an exception, after it resolved a
\* map given with --set.
SetEnded == sv_pc \in {"done", "failed"} /\ sv_env.set /\ sv.version_map # <<>>

\* The components of the resolved map name distinct trees.
DistinctTrees ==
  \A i, j \in DOMAIN sv.version_map :
    sv.version_map[i].tree = sv.version_map[j].tree => i = j

\* C2: when version_map --set has ended for a map whose components name
\* distinct trees, the version checked out in every listed tree is the
\* version the map gives for it, whatever version another listed tree pins
\* it at: for "repo@v1 other@v2", where other pins repo at v3, repo is at the
\* commit of v1.
C2_ListedTreesEndAtMapVersion ==
  (SetEnded /\ DistinctTrees)
    => \A i \in DOMAIN sv.version_map :
         sv.git.versions[sv.version_map[i].tree] = sv.version_map[i].resolved_version

\* The pairs lookup_versions gives for a tree: its pins, in order.
PinPairs(t) ==
  [i \in DOMAIN sv_env.pins[t] |-> <<sv_env.pins[t][i].url, sv_env.pins[t][i].version>>]

\* The set walk as first-come, pass by pass: current is what is left of the
\* pass at depth d, next what was enqueued for the pass after it.  Gives the
\* version each tree is to get (applied) and every (tree, version, depth)
\* that was enqueued (seen).  A tree of fails is met and left alone.
RECURSIVE FirstComePass(_, _, _, _, _, _, _)
FirstComePass(current_, next_, processed_, applied_, seen_, d_, fails_) ==
  Bind6(current_, next_, processed_, applied_, seen_, d_,
    LAMBDA current, next, processed, applied, seen, d :
      IF current = <<>>
      THEN IF next = <<>> THEN [applied |-> applied, seen |-> seen]
           ELSE FirstComePass(next, <<>>, processed, applied, seen, d + 1, fails_)
      ELSE IF current[1][1] \in processed
      THEN FirstComePass(Tail(current), next, processed, applied,
                         seen \cup {<<current[1][1], current[1][2], d>>}, d, fails_)
      ELSE IF current[1][1] \in fails_
      THEN FirstComePass(Tail(current), next, processed \cup {current[1][1]}, applied,
                         seen \cup {<<current[1][1], current[1][2], d>>}, d, fails_)
      ELSE FirstComePass(Tail(current), next \o PinPairs(current[1][1]),
                         processed \cup {current[1][1]},
                         [t \in DOMAIN applied \cup {current[1][1]} |->
                            IF t = current[1][1] THEN current[1][2] ELSE applied[t]],
                         seen \cup {<<current[1][1], current[1][2], d>>}, d, fails_))

\* The walk from the resolved map of this run.
FirstCome(fails) ==
  FirstComePass(primed(sv.version_map), <<>>, {}, [t \in {} |-> <<>>], {}, 0, fails)

\* Tree t is enqueued at several depths with different versions.
SeveralDepths(seen, t) ==
  \E a \in seen, b \in seen : a[1] = t /\ b[1] = t /\ a[3] # b[3] /\ a[2] # b[2]

\* C11: when the set walk has ended (git working in every tree), a tree that
\* was enqueued at several depths with different pinned versions is at the
\* version enqueued in the earliest pass, the first one enqueued in that pass.
C11_EarliestPinIsApplied ==
  (SetEnded /\ sv_env.git_fails = {}) =>
     \E fc \in { FirstCome({}) } :
        \A t \in DOMAIN fc.applied :
           SeveralDepths(fc.seen, t) => sv.git.versions[t] = fc.applied[t]

\* A tree that is discovered through another tree's pins only, and in whose
\* directory git fails.
FailingDependency(seen) ==
  { t \in sv_env.git_fails : (\E a \in seen : a[1] = t) /\ ~(\E a \in seen : a[1] = t /\ a[3] = 0) }

\* C12: when the set walk has ended and a transitively discovered dependency
\* could not be updated, the walk was not aborted (the command ended
\* normally) and every other tree it came to is at its first-come version.
C12_FailedUpdateDoesNotAbortTheSetWalk ==
  SetEnded =>
     \E fc \in { FirstCome(sv_env.git_fails) } :
        FailingDependency(fc.seen) # {} =>
           /\ sv.exit = "ok"
           /\ \A t \in DOMAIN fc.applied : sv.git.versions[t] = fc.applied[t]

\* C13: a dependency that has to be cloned where a directory that is not a
\* repository stands, once the walk has come to it, is in the errored set
\* and the command has not ended by an exception.
C13_StaleCloneIsRecordedAndWalkGoesOn ==
  \A t \in wk_env.stale :
     (wk_hist.start = "ok" /\ wk_hist.count[t] > 0) =>
        (t \in wk.recursive_errored /\ wk_pc # "failed")

\* C14: when the checkout of the start tree has failed, the command has
\* ended by that exception, the sets of the walk were never filled and no
\* other tree was checked out.
C14_StartTreeFailurePropagates ==
  wk_hist.start \notin {"none", "ok"} =>
     /\ wk_pc = "failed"
     /\ wk_hist.exit = wk_hist.start
     /\ wk.all_depends = {} /\ wk.recursive_processed = {}
     /\ wk_hist.count[wk.tree] = 1
     /\ \A t \in AllTrees \ {wk.tree} : wk_hist.count[t] = 0

\* The start tree declares a dependency and its checkout raised UserError.
C14_Witness ==
  /\ wk_hist.start = "UserError"
  /\ wk_pc = "failed"
  /\ \E t \in WalkTrees : <<wk.tree, t>> \in wk_env.graph /\ t # wk.tree

\* The registry of workspace w is what its trees.json holds.
Persisted(w) ==
  /\ IsFile(w.fs, trees_config_file)
  /\ w.fs[trees_config_file].text.trees = w.trees

\* The registry before the last call.
TreesBefore == ws_last.before.trees

\* C15: whatever the last call was, every record the registry held before it
\* is still there unchanged; a get_tree that created a tree added exactly the
\* record of that tree and the registry is written to trees.json; a get_tree
\* for a registered URL left registry and files as they were and returned a
\* tree equal to the one first made for the URL.
C15_RegistryOnlyGrows ==
  ws_last.op # "none" =>
     /\ \A tid \in DOMAIN TreesBefore :
           tid \in DOMAIN ws.trees /\ ws.trees[tid] = TreesBefore[tid]
     /\ ws_last.op = "get_tree" =>
           IF ws_last.kind = "ok" /\ ws_last.tree # None
           THEN IF tree_id(ws_last.url) \in DOMAIN TreesBefore
                THEN /\ ws = ws_last.before
                     /\ TreeEq(GitTreeRef(ws_last.tree, 2), GitTreeRef(ws_last.url, 1))
                ELSE /\ ws_last.create
                     /\ DOMAIN ws.trees = DOMAIN TreesBefore \cup {tree_id(ws_last.url)}
                     /\ ws.trees[tree_id(ws_last.url)].url = ws_last.url
                     /\ Persisted(ws)
           ELSE ws = ws_last.before

\* A get_tree for a URL that is registered, in a registry to which two
\* trees were added one after the other.
C15_Witness ==
  /\ ws_last.op = "get_tree" /\ ws_last.kind = "ok" /\ ws_last.tree # None
  /\ ws_last.tree = ws_last.url
  /\ tree_id(ws_last.url) \in DOMAIN TreesBefore
  /\ Cardinality(DOMAIN ws.trees) = 2
  /\ Persisted(ws)

\* The records of the registry that are records of the root tree.
RootRecords(w) == { tid \in DOMAIN w.trees : w.trees[tid].url = ROOT_URL }

\* The place of the link the manifest of the workspace directory declares.
RootDepLink == PathParts(StrPathJoin(REPO_PATH, DepPath(1)))

\* C16: the registry never holds a root record under another id than
\* "git/__root__", and get_root_tree leaves exactly that one and returns the
\* root tree, whose directory is the workspace directory; the root tree's
\* checkout() does not clone (no clone failure, no repository made in the
\* workspace directory) and sets up the links of its manifest; make_link on
\* the root tree succeeds and changes nothing.
C16_RootTreeIsUniqueAndNeverClonedOrLinked ==
  /\ RootRecords(ws) \subseteq { <<"g","i","t","/","_","_","r","o","o","t","_","_">> }
  /\ path_in_repo(ROOT_URL) = Ok(REPO_PATH)
  /\ (ws_last.op = "get_root_tree" /\ ws_last.kind = "ok") =>
        /\ ws_last.tree = ROOT_URL
        /\ Cardinality(RootRecords(ws)) = 1
        /\ RootRecords(ws_last.before) # {} => ws = ws_last.before
  /\ (ws_last.op = "checkout" /\ ws_last.url = ROOT_URL) =>
        /\ ws_last.kind \notin { "AttributeError", "TypeError", "GitError" }
        /\ has_git_head(ws.fs, REPO_PATH) = has_git_head(ws_last.before.fs, REPO_PATH)
        /\ (ws_last.kind = "ok" /\ IsFile(ws.fs, deps_file(REPO_PATH)))
              => IsLink(ws.fs, RootDepLink)
  /\ (ws_last.op = "make_link" /\ ws_last.url = ROOT_URL) =>
        (ws_last.kind = "ok" /\ ws = ws_last.before)

\* checkout() of the root tree, as the third call, in a workspace that is
\* not a git repository and has a manifest: the link of the manifest is made.
C16_Witness ==
  /\ ws_last.op = "checkout" /\ ws_last.url = ROOT_URL
  /\ ~has_git_head(ws.fs, REPO_PATH)
  /\ IsLink(ws.fs, RootDepLink)
  /\ ws_calls = 3

\* The directory of the tree the last call was about.
LastPath == path_in_repo(ws_last.url).val

\* C23: checkout() of a tree other than the root tree clones it when its
\* directory is not a repository and only then, and in both cases goes on
\* to initialize() of the tree's providers: it does not end in the clone
\* call, and the links of the tree's manifest are set up when it returns.
C23_CloneIffNotARepositoryThenInitialize ==
  (ws_last.op = "checkout" /\ ws_last.url # ROOT_URL) =>
     /\ ~has_git_head(ws_last.before.fs, LastPath) => has_git_head(ws.fs, LastPath)
     /\ has_git_head(ws_last.before.fs, LastPath) =>
           ws.fs[PathParts(LastPath) \o <<DOT_GIT, HEAD>>]
             = ws_last.before.fs[PathParts(LastPath) \o <<DOT_GIT, HEAD>>]
     /\ ws_last.kind \notin { "AttributeError", "TypeError", "GitError" }

\* The provider list an _init_deps on an unset list would build from the
\* content now at the tree's path.
ListFromContent == init_deps(ti_ws.fs, [ti EXCEPT !.deps = <<>>]).deps

\* C24: the provider list of a tree object, once computed, is the list
\* every later access of dependencies or dep_providers uses; and after a
\* checkout() of a tree whose path was not a repository, the tree is cloned
\* and the list is unset or is the one built from the cloned content.
C24_ListComputedOnceAndResetByClone ==
  /\ (ti_last.op \in { "dependencies", "dep_providers" } /\ ti_last.before.deps # <<>>) =>
        ti.deps = ti_last.before.deps
  /\ (ti_last.op = "checkout" /\ ~has_git_head(ti_last.ws_before.fs, OBJECT_DIR)) =>
        /\ has_git_head(ti_ws.fs, OBJECT_DIR)
        /\ ti.deps \in { <<>>, ListFromContent }

\* The first half of C24 alone: an access does not rebuild a list that is
\* set, whatever the working tree holds by then, and a checkout() that
\* does not clone keeps it too.
C24_ListIsReused ==
  (ti_last.op \in { "dependencies", "dep_providers", "checkout" }
     /\ ti_last.before.deps # <<>>) => ti.deps = ti_last.before.deps

\* An access reused a list that the content of the working tree would no
\* longer give (the manifest appeared or went after the list was built).
C24_ReusedStaleList ==
  /\ ti_last.op \in { "dependencies", "dep_providers" }
  /\ ti_last.before.deps # <<>>
  /\ ti.deps # ListFromContent

\* The seed list of the focus run.
FocusSeed == focus_prime(sv_ws, sv_env.specs, sv_env.cwd, sv_env.pins).pairs

\* The first position of the seed list that names tree t.
FirstNamed(t) ==
  CHOOSE i \in DOMAIN FocusSeed :
    FocusSeed[i][1] = t /\ \A j \in 1..(i - 1) : FocusSeed[j][1] # t

\* C25: in one run of the set walk no tree has its version checked out more
\* than once, and a tree of the seed list that the walk has taken up, in
\* whose directory git works, is at the version its first occurrence in the
\* seed list gives.
C25_UpdatedOnceToFirstOccurrence ==
  /\ \A t \in SetTrees : Cardinality(LogAt("checkout", t)) <= 1
  /\ (sv_pc \in { "while", "for", "done", "failed" }
        /\ focus_prime(sv_ws, sv_env.specs, sv_env.cwd, sv_env.pins).kind = "ok") =>
       \A t \in sv.processed_trees \ sv_env.git_fails :
          (\E i \in DOMAIN FocusSeed : FocusSeed[i][1] = t) =>
             sv.git.versions[t] = FocusSeed[FirstNamed(t)][2]

\* What the code keeps of C25: no tree is taken up after it was marked
\* processed, so no tree's update_version is entered twice.
C25_NoCheckoutTwice ==
  \A t \in SetTrees : Cardinality(LogAt("checkout", t)) <= 1

\* C26: once the worklist loop of the set walk is entered, in a workspace
\* where git works in every tree, the loop ends by its test: the pending
\* list is found empty and exec returns.
C26_WorklistLoopRunsEmpty ==
  (sv_pc = "while" /\ sv_env.git_fails = {}) ~> (sv_pc = "done")

\* What the code keeps of C26: every run of exec ends, the loop never spins.
C26_ExecEnds == <>(sv_pc \in { "done", "failed" })

\* The trees of the walk that hold a manifest file.
ManifestTrees == { t \in SetTrees : IsFile(sv_ws.fs, deps_file(path_in_repo(t).val)) }

\* C27: for a tree with a manifest file, the step of the set walk that
\* enqueues the dependency versions (lookup_versions of each provider)
\* ends without error and its pairs name the trees of the manifest; and
\* when the walk has taken up such a tree, in whose directory git works,
\* the walk has not failed on it.
C27_ManifestTreeIsWalked ==
  \A t \in ManifestTrees :
     /\ lookup_versions(sv_ws, t, sv_env.pins[t]).kind = "ok"
     /\ \A d \in SetTrees : <<t, d>> \in sv_env.graph =>
           \E i \in DOMAIN lookup_versions(sv_ws, t, sv_env.pins[t]).pairs :
              lookup_versions(sv_ws, t, sv_env.pins[t]).pairs[i][1] = d
     /\ (t \in sv.processed_trees \ sv_env.git_fails) => sv_pc # "failed"

\* What the code keeps of C27: for a tree without a manifest file the
\* enqueue step gives one pair per submodule whose tree can be resolved.
C27_SubmoduleTreeIsLookedUp ==
  \A t \in SetTrees \ ManifestTrees :
     /\ lookup_versions(sv_ws, t, sv_env.pins[t]).kind = "ok"
     /\ Len(lookup_versions(sv_ws, t, sv_env.pins[t]).pairs) = Len(sv_env.pins[t])

\* The path segs name from base: ".." goes one directory up.
RECURSIVE NormSegs(_, _)
NormSegs(base_, segs_) ==
  Bind2(base_, segs_, LAMBDA base, segs :
    IF segs = <<>> THEN base
    ELSE IF Head(segs) = <<".", ".">> THEN NormSegs(Parent(base), Tail(segs))
    ELSE NormSegs(Append(base, Head(segs)), Tail(segs)))

\* Where the symlink at parts leads: its text, taken from the directory of
\* the link when it is relative.
LinkDestination(fs_, parts_) ==
  Bind2(fs_, parts_, LAMBDA fs, parts :
    IF IsAbs(fs[parts].text) THEN PathParts(fs[parts].text)
    ELSE NormSegs(Parent(parts), SplitSegs(fs[parts].text)))

\* The last call was checkout() of the tree object, its directory a clone.
CheckoutOfClone ==
  ti_last.op = "checkout" /\ has_git_head(ti_last.ws_before.fs, OBJECT_DIR)

\* The submodules the tree declares.
ModulesOf == parse_gitmodules(ti_last.ws_before.fs, OBJECT_DIR)

\* What the last call added to the log of the submodule provider.
NewLog == SubSeq(ti.log, Len(ti_last.before.log) + 1, Len(ti.log))

\* Submodule i can be resolved to a tree.
Resolvable(i) == get_tree(ti_last.ws_before, ModulesOf[i].url, TRUE).kind = "ok"

ModulePathOf(i) == PathParts(StrPathJoin(OBJECT_DIR, ModulesOf[i].path))

\* The path of submodule i was a symlink, absent or an empty directory.
WasLinkable(i) ==
  \/ IsLink(ti_last.ws_before.fs, ModulePathOf(i))
  \/ ~EntryAt(ti_last.ws_before.fs, ModulePathOf(i))
  \/ (IsDir(ti_last.ws_before.fs, ModulePathOf(i))
        /\ DirIsEmpty(ti_last.ws_before.fs, ModulePathOf(i)))

\* The path of submodule i is a symlink that leads to its tree's directory.
LinkedToTree(i) ==
  /\ IsLink(ti_ws.fs, ModulePathOf(i))
  /\ LinkDestination(ti_ws.fs, ModulePathOf(i))
       = PathParts(path_in_repo(ModulesOf[i].url).val)

\* The log marks the path of submodule i skip-worktree before its link is touched.
MarkedBeforeLinked(i) ==
  \A k \in DOMAIN NewLog :
     NewLog[k] = <<"link", ModulesOf[i].path>> =>
        \E j \in 1..(k - 1) : NewLog[j] = <<"skip_worktree", ModulesOf[i].path>>

\* What initialize() of the submodule provider owes to the modules in is.
InitializedModules(is) ==
  /\ ModulesOf = <<>> =>
        /\ NewLog = <<>>
        /\ DictGet(ti_ws.fs, ModulePath) = DictGet(ti_last.ws_before.fs, ModulePath)
  /\ \A i \in is :
        Resolvable(i) =>
           /\ MarkedBeforeLinked(i)
           /\ \E j \in DOMAIN NewLog : NewLog[j] = <<"skip_worktree", ModulesOf[i].path>>
           /\ WasLinkable(i) => LinkedToTree(i)

\* C28: after checkout() of a cloned tree ran initialize() of its submodule
\* provider: without submodules nothing was marked and the path is as it
\* was; every submodule that resolves to a tree had its path marked
\* skip-worktree, before its link was touched, and its path is a symlink to
\* the tree's directory if it was a symlink, absent or an empty directory.
C28_SubmodulesMarkedThenLinked ==
  CheckoutOfClone => InitializedModules(DOMAIN ModulesOf)

\* Submodule i has no module before it whose URL makes get_tree fail with
\* something other than UserError.
NothingFatalBefore(i) ==
  \A j \in 1..(i - 1) :
     get_tree(ti_last.ws_before, ModulesOf[j].url, TRUE).kind \in { "ok", "UserError" }

\* What the code keeps of C28: the same for the submodules up to the first
\* one whose URL is of a scheme universe_path asserts on.
C28_UpToFirstFatalModule ==
  CheckoutOfClone =>
     InitializedModules({ i \in DOMAIN ModulesOf : NothingFatalBefore(i) })

\* A checkout() replaced a symlink that led elsewhere, after a module
\* without scheme was skipped.
C28_ForeignLinkReplaced ==
  /\ CheckoutOfClone
  /\ Len(ModulesOf) = 2 /\ Resolvable(2) /\ ~Resolvable(1)
  /\ IsLink(ti_last.ws_before.fs, ModulePathOf(2))
  /\ LinkDestination(ti_last.ws_before.fs, ModulePathOf(2))
       # PathParts(path_in_repo(ModulesOf[2].url).val)
  /\ LinkedToTree(2)

\* The tree the walk visited last had checkout(repo, tree, is_root_checkout)
\* return normally.
LastVisitDone == wk_hist.last.kind = "ok"

\* The default link of tree t under all/ is in place and leads to t.
DefaultLinked(t) ==
  /\ IsLink(wk_ws.fs, PathParts(all_path(t)))
  /\ LinkDestination(wk_ws.fs, PathParts(all_path(t))) = PathParts(path_in_repo(t).val)

\* C29 as stated: in the no-argument form, a tree other than the start
\* tree that the walk checked out has its default link under all/.
C29_RootCheckoutLinksUnderAll ==
  (wk_env.args = <<>> /\ LastVisitDone) => DefaultLinked(wk_hist.last.tree)

\* C29 amended: in the no-argument form the run creates nothing under
\* all/, for no tree; in the form with a URL, the start tree once its
\* checkout returned normally, and the tree visited last when its checkout
\* returned normally, have their default link under all/.
C29_OnlyUrlFormLinksUnderAll ==
  /\ wk_env.args = <<>> =>
        \A t \in WalkTrees : ~EntryAt(wk_ws.fs, PathParts(all_path(t)))
  /\ (wk_env.args # <<>> /\ wk_hist.start = "ok") => DefaultLinked(wk.tree)
  /\ (wk_env.args # <<>> /\ LastVisitDone /\ wk_hist.last.tree # ROOT_URL) =>
        DefaultLinked(wk_hist.last.tree)

\* A no-argument checkout visited a dependency, whose checkout returned
\* normally.
C29_Witness ==
  /\ wk_env.args = <<>>
  /\ LastVisitDone
  /\ wk_hist.last.tree \in WalkTrees
  /\ wk_hist.start = "ok"

\* A checkout with a URL visited a dependency and linked it under all/.
C29_UrlFormLinkedDependency ==
  /\ wk_env.args # <<>>
  /\ LastVisitDone
  /\ wk_hist.last.tree \in WalkTrees \ {wk.tree}
  /\ DefaultLinked(wk_hist.last.tree)

\* The command line names a link target.
LinkRequested == Len(wk_env.args) = 2

\* Where C30 puts the requested link: in the target under the default
\* alias of the start tree when the target is a directory as the run
\* starts, at the target otherwise.
RequestedPlace ==
  IF IsDir(WalkStart(wk_env).fs, PathParts(wk_env.args[2]))
  THEN PathParts(wk_env.args[2]) \o << default_local_path(wk_env.args[1]).val >>
  ELSE PathParts(wk_env.args[2])

\* The requested link is in place and leads to the start tree.
RequestedLinked ==
  /\ IsLink(wk_ws.fs, RequestedPlace)
  /\ LinkDestination(wk_ws.fs, RequestedPlace) = PathParts(path_in_repo(wk_env.args[1]).val)

\* A tree other than the start tree has been processed.
DependencyProcessed == \E t \in AllTrees \ {wk_env.args[1]} : wk_hist.count[t] > 0

\* The requested link with respect to the start tree's checkout and to the
\* dependencies: nothing is at its place until the start tree's checkout has
\* returned normally, and the link is there once the sets of the walk are
\* seeded or a dependency was processed.
RequestedLinkInOrder ==
  LinkRequested =>
     /\ (wk_pc = "start" \/ wk_hist.start # "ok") => ~EntryAt(wk_ws.fs, RequestedPlace)
     /\ wk_pc = "link" => (~EntryAt(wk_ws.fs, RequestedPlace) /\ ~DependencyProcessed)
     /\ (wk_pc \in { "loop", "for", "report", "done" } \/ DependencyProcessed) => RequestedLinked

\* The step that follows the start tree's checkout puts the link in place.
RequestedLinkStep ==
  (LinkRequested /\ wk_pc = "link") =>
     (/\ IsLink(wk_ws'.fs, RequestedPlace)
      /\ LinkDestination(wk_ws'.fs, RequestedPlace) = PathParts(path_in_repo(wk_env.args[1]).val))

\* C30: with a link target on the command line, the link is created by the
\* step after the start tree's checkout and before any dependency is
\* processed, inside the target under the start tree's default alias when
\* the target is an existing directory and at the target path otherwise.
C30_RequestedLinkAfterStartBeforeDependencies ==
  [](RequestedLinkInOrder) /\ [][RequestedLinkStep]_vars

\* The place of the requested link is in a directory below the workspace
\* directory, not in the workspace directory itself.
PlaceBelowSubdirectory ==
  LinkRequested /\ Len(RequestedPlace) > Len(PathParts(REPO_PATH)) + 1

\* What the code keeps of C30: the same for a link whose place is not
\* directly in the workspace directory.
C30_RequestedLinkInSubdirectory ==
  [](PlaceBelowSubdirectory => RequestedLinkInOrder)
    /\ [][PlaceBelowSubdirectory => RequestedLinkStep]_vars

\* A run with the existing directory as the target processed a dependency
\* with the link in the directory, the directory still a directory.
C30_Witness ==
  /\ LinkRequested /\ wk_env.args[2] = TARGET_DIR
  /\ DependencyProcessed
  /\ RequestedLinked
  /\ IsDir(wk_ws.fs, PathParts(TARGET_DIR))

\* A run with a target that did not exist processed a dependency with the
\* link at the target path.
C30_LinkAtTargetPath ==
  /\ LinkRequested /\ wk_env.args[2] = TARGET_DEEP
  /\ DependencyProcessed
  /\ RequestedLinked

-----------------------------------------------------------------------------
(* VersionComponent.parse                                                  *)

\* The last position of c in s, 0 when s has no c.
LastPlace(s, c) ==
  IF \E i \in 1..Len(s) : s[i] = c
  THEN CHOOSE i \in 1..Len(s) : s[i] = c /\ \A j \in (i + 1)..Len(s) : s[j] # c
  ELSE 0

\* v is None (a part of a component is a string or None).
IsNone(v) == ToString(v) = ToString(None)

\* A part of a component is absent: None, or nothing at all.
Absent(v) == IF IsNone(v) THEN TRUE ELSE v = <<>>

\* s split at its last c into rest and version, each part optional.
SplitAtLast(s, c, rest, version) ==
  IF LastPlace(s, c) = 0 THEN rest = s /\ Absent(version)
  ELSE /\ rest = SubSeq(s, 1, LastPlace(s, c) - 1)
       /\ IF LastPlace(s, c) = Len(s) THEN Absent(version)
          ELSE ~IsNone(version) /\ version = SubSeq(s, LastPlace(s, c) + 1, Len(s))

\* s split at its last c that a character other than c follows: the version
\* is the run of characters other than c after it, and what follows the run
\* (only further c) is dropped; without such a c there is no version and the
\* rest is all of s.
SplitAtLastFollowed(s, c, rest, version) ==
  IF \A i \in 1..(Len(s) - 1) : s[i] = c => s[i + 1] = c
  THEN rest = s /\ IsNone(version)
  ELSE /\ ~IsNone(version)
       /\ Len(version) >= 1
       /\ \A k \in 1..Len(version) : version[k] # c
       /\ \E i \in 1..(Len(s) - Len(version)) :
            /\ s[i] = c
            /\ rest = SubSeq(s, 1, i - 1)
            /\ version = SubSeq(s, i + 1, i + Len(version))
            /\ \A k \in (i + Len(version) + 1)..Len(s) : s[k] = c

OneLine(s) == \A i \in 1..Len(s) : s[i] # "\n"

ParsedComponent == pv_last.op = "component"

\* C31 as stated: the token is split at its last "=" into rest and resolved
\* version, and the rest at its last "@" into tree spec and symbolic version.
C31_SplitAtLastEqualsThenLastAt ==
  ParsedComponent =>
    \E rest \in { SubSeq(pv_last.arg, 1, n) : n \in 0..Len(pv_last.arg) } :
      /\ SplitAtLast(pv_last.arg, EQUALS, rest, pv_last.val.resolved_version)
      /\ SplitAtLast(rest, AT, pv_last.val.tree, pv_last.val.symbolic_version)

\* C31, amended: a token on one line is split at its last "=" that a character
\* other than "=" follows, the resolved version running to the next "=" or
\* the end, and the rest likewise at its last "@" that a character other than
\* "@" follows; the two examples of the docstring parse as documented.
C31_SplitAtLastFollowedSeparator ==
  /\ (ParsedComponent /\ OneLine(pv_last.arg)) =>
       \E rest \in { SubSeq(pv_last.arg, 1, n) : n \in 0..Len(pv_last.arg) } :
         /\ SplitAtLastFollowed(pv_last.arg, EQUALS, rest, pv_last.val.resolved_version)
         /\ SplitAtLastFollowed(rest, AT, pv_last.val.tree, pv_last.val.symbolic_version)
  /\ (ParsedComponent /\ pv_last.arg = TOKEN_FULL) =>
       pv_last.val = VersionComponent(<<"f","o","o">>, FALSE,
                                      <<"a","b","c","d","e","f","g">>, <<"H","E","A","D">>)
  /\ (ParsedComponent /\ pv_last.arg = TOKEN_ID) =>
       /\ IsNone(pv_last.val.symbolic_version)
       /\ pv_last.val.resolved_version = <<"a","b","c","d","e","f","g">>
       /\ pv_last.val.tree = SubSeq(TOKEN_ID, 1, Len(TOKEN_ID) - 8)

\* The token "foo@HEAD=abcdefg" was parsed into its three parts.
C31_Witness ==
  /\ ParsedComponent
  /\ pv_last.arg = TOKEN_FULL
  /\ ~IsNone(pv_last.val.symbolic_version) /\ ~IsNone(pv_last.val.resolved_version)
  /\ pv_last.val.tree = <<"f","o","o">>
  /\ pv_last.val.symbolic_version = <<"H","E","A","D">>
  /\ pv_last.val.resolved_version = <<"a","b","c","d","e","f","g">>

\* A token that ends in "=" was parsed: the "=" stays in the tree spec.
C31_TrailingEqualsKept ==
  /\ ParsedComponent
  /\ pv_last.arg = <<"a", EQUALS>>
  /\ pv_last.val.tree = <<"a", EQUALS>>
  /\ IsNone(pv_last.val.resolved_version)

-----------------------------------------------------------------------------
(* VersionMap.parse                                                        *)

\* The whitespace characters of the texts.
Whitespace == { " ", "\t", "\r", "\n" }

\* Where the tokens of s begin: a character that is no whitespace, at the
\* beginning of s or after whitespace.
TokenStarts(s) ==
  { i \in 1..Len(s) : s[i] \notin Whitespace /\ (i = 1 \/ s[i - 1] \in Whitespace) }

\* The token of s that begins at i: up to the next whitespace or the end.
TokenAt(s, i) ==
  SubSeq(s, i, CHOOSE j \in i..Len(s) :
                 /\ \A k \in i..j : s[k] \notin Whitespace
                 /\ (j = Len(s) \/ s[j + 1] \in Whitespace))

\* The whitespace-delimited tokens of s, in order.
RECURSIVE TokensFrom(_, _)
TokensFrom(s, starts) ==
  IF starts = {} THEN <<>>
  ELSE <<TokenAt(s, CHOOSE i \in starts : \A j \in starts : i <= j)>>
         \o TokensFrom(s, starts \ { CHOOSE i \in starts : \A j \in starts : i <= j })

\* The tokens of all the specs, in input order.
RECURSIVE TokensOfSpecs(_)
TokensOfSpecs(specs) ==
  IF specs = <<>> THEN <<>>
  ELSE TokensFrom(Head(specs), TokenStarts(Head(specs))) \o TokensOfSpecs(Tail(specs))

\* Two optional parts are the same.
SamePart(a, b) == IF IsNone(a) THEN IsNone(b) ELSE ~IsNone(b) /\ a = b

\* Component c is the component of token t.
ComponentOf(c, t) ==
  /\ c.tree = component_parse(t).tree
  /\ SamePart(c.symbolic_version, component_parse(t).symbolic_version)
  /\ SamePart(c.resolved_version, component_parse(t).resolved_version)

ParsedMap == pv_last.op = "map"

\* The components are those of the tokens, one each, in order: no component
\* comes from the whitespace before, between or after the tokens.
OneComponentPerToken ==
  /\ Len(pv_last.val) = Len(TokensOfSpecs(pv_last.arg))
  /\ \A k \in 1..Len(pv_last.val) : ComponentOf(pv_last.val[k], TokensOfSpecs(pv_last.arg)[k])

\* C32: VersionMap.parse yields one component per whitespace-delimited token
\* of its inputs, in input order, leading and trailing whitespace included;
\* no component has an empty tree spec.
C32_OneComponentPerToken == ParsedMap => OneComponentPerToken

\* A spec begins and ends with a character of a token, and has no "|".
Trimmed(s) ==
  /\ s # <<>>
  /\ s[1] \notin Whitespace /\ s[Len(s)] \notin Whitespace
  /\ \A i \in 1..Len(s) : s[i] # "|"

\* What the code keeps of C32: the same for specs that neither begin nor end
\* with whitespace and have no "|".
C32_TrimmedSpecs ==
  (ParsedMap /\ \A i \in 1..Len(pv_last.arg) : Trimmed(pv_last.arg[i])) => OneComponentPerToken

\* The text of the docstring was parsed into its three components.
C32_DocstringText ==
  /\ ParsedMap /\ pv_last.arg = <<TEXT_DOC>>
  /\ Len(pv_last.val) = 3
  /\ pv_last.val[3].tree = <<"g","a","h">>

\* A spec with leading whitespace gave a component with an empty tree spec.
C32_EmptyTreeSpec ==
  /\ ParsedMap /\ pv_last.arg = << <<" ", "a">> >>
  /\ Len(pv_last.val) = 2
  /\ pv_last.val[1].tree = <<>>

-----------------------------------------------------------------------------
(* The sets of the checkout walk and its report                            *)

\* The report of exec is being printed or was printed.
Reporting == wk_pc \in {"report", "done"}

\* C33: throughout the walk processed is a subset of all_depends and errored
\* a subset of processed; at the report the count printed as processed
\* (the size of all_depends) is the number of trees reachable from the start
\* tree, the start tree and the errored trees included, and there is one
\* captured error message per errored tree.
C33_WalkSetsAndReport ==
  /\ wk.recursive_processed \subseteq wk.all_depends
  /\ wk.recursive_errored \subseteq wk.recursive_processed
  /\ Reporting =>
        /\ Cardinality(wk.all_depends) = Cardinality(ReachableFrom({wk.tree}))
        /\ {wk.tree} \cup wk.recursive_errored \subseteq wk.all_depends
        /\ Len(wk.all_exceptions) = Cardinality(wk.recursive_errored)
        /\ Range(wk.all_exceptions) = wk.recursive_errored

\* A walk over three trees has reported, one of the dependencies errored.
C33_Witness ==
  /\ wk_pc = "done"
  /\ Cardinality(wk.all_depends) = 3
  /\ Cardinality(wk.recursive_errored) = 1
  /\ wk.tree \notin wk.recursive_errored

-----------------------------------------------------------------------------
(* version_map --set: resolve comes before every update                    *)

\* The components the command line parses to.
ParsedOfCommandLine == map_parse(sv_env.specs)

\* Some component of the map does not resolve: its tree is unknown, or its
\* symbolic version is not among the refs of the remote.
FailsToResolve ==
  \E i \in DOMAIN ParsedOfCommandLine :
     component_resolve(sv_ws, SetRemoteRefs, ParsedOfCommandLine[i]).kind # "ok"

\* exec has come to an update_version call (the tree is added to
\* processed_trees right before the call).
UpdateCalled == sv.processed_trees # {}

\* No git command was run by exec and every tree is at the version it had.
GitUntouched == sv.git = NoSetLocals.git

\* C34: when update_version is called every component of the map is
\* resolved, and when some component fails to resolve update_version is
\* never called and no tree's checked-out version changes.
C34_ResolveBeforeFirstUpdate ==
  /\ UpdateCalled =>
        /\ ~FailsToResolve
        /\ Len(sv.version_map) = Len(ParsedOfCommandLine)
        /\ \A i \in DOMAIN sv.version_map : sv.version_map[i].is_tree
  /\ FailsToResolve =>
        /\ ~UpdateCalled
        /\ GitUntouched
        /\ sv.pending_tree_specs = <<>>
        /\ sv_pc \in {"start", "failed"}

\* --set with a map whose first component resolves and whose second names an
\* unknown tree has ended.
C34_Witness ==
  /\ sv_env.set /\ sv_env.specs = <<SPEC_REPO, SPEC_UNKNOWN>>
  /\ sv_pc = "failed"
  /\ FailsToResolve
  /\ component_resolve(sv_ws, SetRemoteRefs, ParsedOfCommandLine[1]).kind = "ok"

\* --set with a symbolic version that the remote does not list has ended.
C34_SymbolicNotOnRemote ==
  /\ sv_env.set /\ sv_env.specs = <<SPEC_NO_REF>>
  /\ sv_pc = "failed" /\ sv.exit = "UserError"
  /\ GitUntouched

\* --set with a map that resolves has come to its first update_version call.
C34_UpdateCalledAfterResolve ==
  /\ sv_env.set /\ UpdateCalled /\ Len(sv.version_map) = 2

-----------------------------------------------------------------------------
(* get_tree when it does not return a new tree                             *)

\* The URLs that are neither of the form http(s)://host/path nor of the form
\* user@host:path.
UnsupportedForms == { URL_NO_SCHEME, URL_GIT_SCHEME }

\* The last call was get_tree with a URL of an unsupported form.
GotUnsupported == ws_last.op = "get_tree" /\ ws_last.url \in UnsupportedForms

\* The last call was get_tree(url, create=False) with a URL of a supported
\* form that the registry did not hold.
GotUnknownWithoutCreate ==
  /\ ws_last.op = "get_tree" /\ ws_last.url \notin UnsupportedForms
  /\ ~ws_last.create
  /\ DictGet(ws_last.before.trees, tree_id(ws_last.url)) = None

\* The call left the tree registry and the alias table as they were.
RegistryAsBefore ==
  ws.trees = ws_last.before.trees /\ ws.aliases = ws_last.before.aliases

\* C35: get_tree with a URL of an unsupported form raises a user-reportable
\* error and leaves the tree registry and the alias table unchanged, and
\* get_tree with create=False for an unknown URL returns None and leaves them
\* unchanged.
C35_NoNewTreeLeavesRegistry ==
  /\ GotUnsupported => (ws_last.kind = "UserError" /\ RegistryAsBefore)
  /\ GotUnknownWithoutCreate =>
        (ws_last.kind = "ok" /\ ws_last.tree = None /\ RegistryAsBefore)

\* What the code keeps of C35: the registry and the alias table are
\* unchanged in both cases, whatever the exception is, and a URL with no
\* scheme and no ":" raises the user-reportable error.
C35_RegistryUnchanged ==
  /\ GotUnsupported => (ws_last.kind # "ok" /\ RegistryAsBefore /\ ws = ws_last.before)
  /\ (GotUnsupported /\ ws_last.url = URL_NO_SCHEME) => ws_last.kind = "UserError"
  /\ GotUnknownWithoutCreate =>
        (ws_last.kind = "ok" /\ ws_last.tree = None /\ RegistryAsBefore /\ ws = ws_last.before)

\* get_tree(url, create=False) for an unknown URL returned None in a
\* workspace that holds another tree.
C35_NoneForUnknown ==
  /\ GotUnknownWithoutCreate /\ ws_last.tree = None
  /\ DOMAIN ws.trees # {}

\* get_tree with a git:// URL ended with the assertion of universe_path.
C35_AssertionForGitScheme ==
  /\ GotUnsupported /\ ws_last.url = URL_GIT_SCHEME
  /\ ws_last.kind = "AssertionError"

-----------------------------------------------------------------------------
(* URL-form checkout: dependencies whose checkout succeeds                 *)

\* The walk visits dependency t in this step.
VisitStep(t) ==
  /\ wk_pc = "for"
  /\ t \in wk.pending
  /\ t \notin wk.recursive_processed
  /\ t \in wk'.recursive_processed

\* tree.checkout() of t, the clone (or its skip) and the initialization of
\* the providers, succeeds in the workspace as it is.
TreeCheckoutSucceeds(t) == tree_checkout(wk_ws, t, wk_env.git_fails).kind = "ok"

\* Dependency t, visited in this step of a walk in the URL form with its
\* tree.checkout() succeeding, is not recorded as errored.
SucceededNotErrored(t) ==
  (VisitStep(t) /\ ~wk.is_root_checkout /\ TreeCheckoutSucceeds(t)) =>
     t \notin wk'.recursive_errored

\* C36: in a walk of the URL form a dependency whose clone and provider
\* initialization succeed is not recorded in the errored set, also when a
\* tree of another origin with the same default alias was checked out
\* before it.
C36_SucceededDependencyNotErrored ==
  [][\A t \in WalkTrees : SucceededNotErrored(t)]_vars

\* What the code keeps of C36: the same for a dependency whose place under
\* all/ is free when it is visited.
C36_NotErroredWhenPlaceIsFree ==
  [][\A t \in WalkTrees :
       ~EntryAt(wk_ws.fs, PathParts(all_path(t))) => SucceededNotErrored(t)]_vars

\* A walk of the URL form has reported with two trees of the same default
\* alias visited: the first is linked under all/, the second is errored.
C36_SameAliasErrored ==
  /\ wk_pc = "done" /\ wk_env.args # <<>>
  /\ {URL_HTTPS_EXAMPLE, URL_SAME_ALIAS} \subseteq wk.recursive_processed
  /\ wk_env.git_fails = {}
  /\ Cardinality(wk.recursive_errored \cap {URL_HTTPS_EXAMPLE, URL_SAME_ALIAS}) = 1

\* A second run of the same command line over the workspace a reported run
\* left ends at the start tree: its checkout raises UserError at the link
\* under all/ that the first run made.
C36_SecondRunStopsAtStartTree ==
  (wk_pc = "done" /\ wk_env.args # <<>> /\ wk_hist.start = "ok") =>
     /\ get_tree(wk_ws, wk_env.args[1], TRUE).kind = "ok"
     /\ tree_checkout(wk_ws, wk_env.args[1], wk_env.git_fails).kind = "ok"
     /\ checkout(wk_ws, wk_env.args[1], FALSE, wk_env.git_fails).kind = "UserError"
====
